---- MODULE Spec2Model ----
(***************************************************************************)
(* Factor pipeline of the ds5110 warehouse: momentum and value factor math, *)
(* the price/fundamentals as-of join, cross-sectional post-processing and   *)
(* the factor store (factor_definitions / factor_values).                   *)
(*                                                                          *)
(* Floating point values are modelled exactly: a value is a record          *)
(*   [k |-> "num", n |-> numerator, d |-> denominator]  (n/d in lowest      *)
(*   terms, d > 0), or one of the special values inf, ninf, nan, null.      *)
(* "null" is a SQL NULL / missing row, "nan" a pandas NaN.                  *)
(***************************************************************************)
EXTENDS Integers, Sequences, FiniteSets, TLC

VARIABLES
    prices,        \* table prices: [Sids \X Dates -> price or NULL]
    mom_args,      \* arguments of the last compute_momentum call
    mom_value,     \* df["value"] of that call, per security (aligned with its series)
    mom_ret,       \* outcome of that call: status and df_factor rows
    fundamentals,  \* table fundamentals: [Sids \X Dates \X Metrics -> value or NULL]
    df_merged,     \* load_prices_with_fundamentals: merged rows per security
    load_ret,      \* outcome of that call
    securities,    \* table securities: [Sids -> sector, "NULL" (no sector) or "absent" (no row)]
    pp_in,         \* df_factor handed to postprocess_factor (rows in frame order)
    pp_args,       \* keyword arguments of the last postprocess_factor call
    pp_out,        \* the frame postprocess_factor returned
    val_args,      \* arguments of the last compute_value_factors call
    val_raw,       \* df_all of that call after step 3: raw sub-factors per row
    val_ret,       \* outcome of that call: status and returned rows
    factor_definitions, \* table factor_definitions, in insertion order
    factor_values, \* table factor_values, a set of rows
    clock,         \* the wall clock read by datetime.now() / pd.Timestamp.now()
    store_args,    \* arguments of the last persisting call
    store_ret,     \* outcome of that call: status and the factor_id it resolved
    bt_scores,     \* FactorBacktester.factor_values: date -> asset -> score
    bt_args,       \* arguments of the last strategy run
    bt_long,       \* long_entries of that run: date -> asset -> BOOLEAN
    bt_short,      \* short_entries of that run
    bt_signal,     \* the daily weights before _prepare_simulation_input
    bt_weights,    \* the weights handed to the simulator as size
    bt_ret,        \* outcome of that run
    tx,            \* the concurrent persisting runs: position, inputs and transaction of each
    commits        \* the runs whose transaction committed, in commit order

momVars == <<mom_args, mom_value, mom_ret>>
loadVars == <<df_merged, load_ret>>
ppVars == <<pp_in, pp_args, pp_out>>
valVars == <<val_args, val_raw, val_ret>>
storeVars == <<factor_definitions, factor_values, clock, store_args, store_ret>>
btVars == <<bt_scores, bt_args, bt_long, bt_short, bt_signal, bt_weights, bt_ret>>
txVars == <<tx, commits>>
vars ==
    <<prices, fundamentals, securities, momVars, loadVars, ppVars, valVars, storeVars,
      btVars, txVars>>

----------------------------------------------------------------------------
(* Bounds of the model *)

MaxDate == 3
MaxLookbackMonths == 2
MaxSkipMonths == 1
MaxTpm == 2
MaxRows == 3

Sids == {1, 2, 3}
Dates == 1..MaxDate

----------------------------------------------------------------------------
(* Exact floating point values *)

Abs(i) == IF i < 0 THEN -i ELSE i

RECURSIVE Gcd(_, _)
Gcd(a, b) == IF b = 0 THEN a ELSE Gcd(b, a % b)

\* the rational n/d (d # 0) in lowest terms with a positive denominator
Rat(n, d) ==
    LET g == Gcd(Abs(n), Abs(d))
        s == IF d < 0 THEN -1 ELSE 1
    IN  [k |-> "num", n |-> (s * n) \div g, d |-> (s * d) \div g]

\* (n1/d1) * (n2/d2) and n1/d1 + n2/d2, cancelling common factors first so
\* that intermediate products stay small
RatMul(n1, d1, n2, d2) ==
    LET g1 == Gcd(Abs(n1), Abs(d2))
        g2 == Gcd(Abs(n2), Abs(d1))
        h1 == IF g1 = 0 THEN 1 ELSE g1
        h2 == IF g2 = 0 THEN 1 ELSE g2
    IN  Rat((n1 \div h1) * (n2 \div h2), (d1 \div h2) * (d2 \div h1))
RatAdd(n1, d1, n2, d2) ==
    LET g == Gcd(Abs(d1), Abs(d2))
    IN  Rat(n1 * (d2 \div g) + n2 * (d1 \div g), (d1 \div g) * d2)

Num(i) == [k |-> "num", n |-> i, d |-> 1]
Inf == [k |-> "inf", n |-> 0, d |-> 1]
NInf == [k |-> "ninf", n |-> 0, d |-> 1]
NaN == [k |-> "nan", n |-> 0, d |-> 1]
NULL == [k |-> "null", n |-> 0, d |-> 1]

IsFinite(x) == x.k = "num"                 \* np.isfinite
IsNa(x) == x.k \in {"nan", "null"}         \* pd.isna
Sign(x) ==
    CASE x.k = "inf" -> 1
      [] x.k = "ninf" -> -1
      [] x.k = "num" -> (IF x.n > 0 THEN 1 ELSE IF x.n < 0 THEN -1 ELSE 0)
      [] OTHER -> 0
IsZero(x) == x.k = "num" /\ x.n = 0
IsPositive(x) == Sign(x) = 1               \* x > 0 (False for NaN)
SignedInf(s) == IF s > 0 THEN Inf ELSE NInf

\* IEEE-754 division as numpy / pandas perform it (no exception is raised)
FDiv(a, b) ==
    CASE IsNa(a) \/ IsNa(b) -> NaN
      [] IsFinite(a) /\ IsFinite(b) /\ ~IsZero(b) -> RatMul(a.n, a.d, b.d, b.n)
      [] IsFinite(a) /\ IsZero(b) -> IF IsZero(a) THEN NaN ELSE SignedInf(Sign(a))
      [] IsFinite(a) /\ ~IsFinite(b) -> Num(0)
      [] ~IsFinite(a) /\ IsFinite(b) ->
            SignedInf(Sign(a) * (IF Sign(b) < 0 THEN -1 ELSE 1))
      [] OTHER -> NaN

\* IEEE-754 subtraction a - b
FSub(a, b) ==
    CASE IsNa(a) \/ IsNa(b) -> NaN
      [] IsFinite(a) /\ IsFinite(b) -> RatAdd(a.n, a.d, -b.n, b.d)
      [] IsFinite(a) -> SignedInf(-Sign(b))
      [] IsFinite(b) -> a
      [] OTHER -> IF a.k = b.k THEN NaN ELSE a

\* a + b and a * b on finite values (NaN propagates)
FAdd(a, b) ==
    IF IsNa(a) \/ IsNa(b) THEN NaN ELSE RatAdd(a.n, a.d, b.n, b.d)
FMul(a, b) ==
    IF IsNa(a) \/ IsNa(b) THEN NaN ELSE RatMul(a.n, a.d, b.n, b.d)

\* a < b on finite values
FLess(a, b) == a.n * b.d < b.n * a.d

\* num / sqrt(var) for finite num and var > 0, kept exact as the signed square:
\* [k |-> "sqrt", n/d] stands for sign(n) * sqrt(|n| / d)
DivSqrt(num, var) ==
    IF IsZero(num) THEN Num(0)
    ELSE LET q == FDiv(FMul(num, num), var)
         IN  [k |-> "sqrt", n |-> Sign(num) * q.n, d |-> q.d]

----------------------------------------------------------------------------
(* Sequence helpers *)

Range(s) == {s[i] : i \in 1..Len(s)}

\* a frame column computed row by row, held as a sequence
Frame(f) == <<>> \o f

RECURSIVE SeqsUpTo(_, _)
SeqsUpTo(S, n) ==
    IF n = 0 THEN {<<>>}
    ELSE LET shorter == SeqsUpTo(S, n - 1)
         IN  shorter \cup {Append(t, x) : t \in {u \in shorter : Len(u) = n - 1}, x \in S}

----------------------------------------------------------------------------
(* Factor store: src/utils/factor_db.py over the schema of src/etl/database_init.py *)

\* mutant: the lookup by name finds nothing
SelectFactorId_NoLookup(defs, name) == 0

\* SELECT factor_id FROM factor_definitions WHERE name = ?  (0: no row)
SelectFactorId(defs, name) ==
    IF \E i \in 1..Len(defs) : defs[i].name = name
    THEN defs[CHOOSE i \in 1..Len(defs) : defs[i].name = name].factor_id
    ELSE 0

\* SELECT COALESCE(MAX(factor_id), 0) + 1 FROM factor_definitions
NextFactorId(defs) ==
    IF defs = <<>> THEN 1
    ELSE 1 + (CHOOSE m \in {defs[i].factor_id : i \in 1..Len(defs)} :
                 \A i \in 1..Len(defs) : defs[i].factor_id <= m)

\* step 1 of both persisting paths: the existing factor_id of the name, or a
\* new row under the next factor_id
RegisterDefinition(defs, row) ==
    LET found == SelectFactorId(defs, row.name)
        factor_id == NextFactorId(defs)
    IN  IF found # 0
        THEN [defs |-> defs, factor_id |-> found]
        ELSE [defs |-> Append(defs,
                  [factor_id |-> factor_id, name |-> row.name,
                   category |-> row.category, params_json |-> row.params_json,
                   description |-> row.description, version |-> row.version,
                   expression |-> row.expression, source |-> row.source,
                   is_active |-> row.is_active, tags |-> row.tags]),
              factor_id |-> factor_id]

\* the keys of factor_meta that register_and_insert_factor requires
RequiredMetaKeys ==
    {"name", "category", "params_json", "description", "expression", "source", "tags"}

\* the row register_and_insert_factor inserts for factor_meta
MetaDefinition(factor_meta) ==
    [name |-> factor_meta.name, category |-> factor_meta.category,
     params_json |-> factor_meta.params_json, description |-> factor_meta.description,
     version |-> IF "version" \in DOMAIN factor_meta THEN factor_meta.version ELSE 1,
     expression |-> factor_meta.expression, source |-> factor_meta.source,
     is_active |-> IF "is_active" \in DOMAIN factor_meta THEN factor_meta.is_active ELSE TRUE,
     tags |-> factor_meta.tags]

\* calc_run_id or f"run_{datetime.now():%Y%m%d_%H%M%S}"
RunId(calc_run_id, now) == IF calc_run_id = <<>> THEN <<"run_", now>> ELSE calc_run_id

ValueKey(r) == <<r.security_id, r.trade_date, r.factor_id>>

\* FOREIGN KEY (security_id) REFERENCES securities(security_id)
ForeignKeysHold(rows, secs) == \A r \in rows : secs[r.security_id] # "absent"

\* the rows of a statement that no constraint rejects
AcceptedByMerge(values, rows, secs) == {r \in rows : ForeignKeysHold({r}, secs)}

AcceptedByInsert(values, rows, secs) ==
    {r \in rows : /\ ForeignKeysHold({r}, secs)
                  /\ \A v \in values : ValueKey(r) # ValueKey(v)}

\* mutant: the earlier rows of the written factors are replaced as a whole
Written_ReplaceFactor(values, rows) ==
    {v \in values : \A r \in rows : r.factor_id # v.factor_id} \cup rows

\* factor_values with rows written over their keys
Written(values, rows) ==
    {v \in values : \A r \in rows : ValueKey(r) # ValueKey(v)} \cup rows

\* mutant: the rows written before the failure stay
Rollback_KeepWritten(before, written) == written

\* con.rollback(): factor_values as it was at con.begin()
Rollback(before, written) == before

\* mutant: a matched row is left as it is
MergeValues_KeepMatched(values, rows, secs) ==
    IF ForeignKeysHold(rows, secs)
    THEN [ok |-> TRUE,
          values |-> values \cup {r \in rows : \A v \in values : ValueKey(r) # ValueKey(v)}]
    ELSE [ok |-> FALSE, values |-> values]

\* MERGE INTO factor_values ... WHEN MATCHED THEN UPDATE ... WHEN NOT MATCHED
\* THEN INSERT, inside begin/commit with rollback on failure
MergeValues(values, rows, secs) ==
    IF AcceptedByMerge(values, rows, secs) = rows
    THEN [ok |-> TRUE, values |-> Written(values, rows)]
    ELSE [ok |-> FALSE,
          values |-> Rollback(values, Written(values, AcceptedByMerge(values, rows, secs)))]

\* INSERT INTO factor_values ... SELECT ... FROM insert_df, inside
\* begin/commit with rollback on failure; PRIMARY KEY (security_id,
\* trade_date, factor_id)
InsertValues(values, rows, secs) ==
    IF AcceptedByInsert(values, rows, secs) = rows
    THEN [ok |-> TRUE, values |-> values \cup rows]
    ELSE [ok |-> FALSE,
          values |-> Rollback(values, values \cup AcceptedByInsert(values, rows, secs))]

OptionalColumn(df_factor, i, col) ==
    IF col \in df_factor.columns THEN df_factor.rows[i][col] ELSE NULL

\* df_to_insert of register_and_insert_factor
FactorInsertRows(df_factor, factor_id, calc_run_id, now) ==
    {[security_id |-> df_factor.rows[i].security_id,
      trade_date |-> df_factor.rows[i].trade_date,
      factor_id |-> factor_id,
      value |-> df_factor.rows[i].value,
      zscore_cross |-> OptionalColumn(df_factor, i, "zscore_cross"),
      rank_cross |-> OptionalColumn(df_factor, i, "rank_cross"),
      zscore_cross_sector |-> OptionalColumn(df_factor, i, "zscore_cross_sector"),
      rank_cross_sector |-> OptionalColumn(df_factor, i, "rank_cross_sector"),
      calc_run_id |-> RunId(calc_run_id, now),
      updated_at |-> now] : i \in 1..Len(df_factor.rows)}

\* what register_and_insert_factor(con, df_factor, factor_meta, calc_run_id)
\* does to the store
RegisterAndInsert(df_factor, factor_meta, calc_run_id) ==
    /\ clock' = clock + 1
    /\ IF RequiredMetaKeys \ DOMAIN factor_meta # {}
       THEN /\ store_args' = [op |-> "register_and_insert_factor", name |-> <<>>,
                              params_json |-> <<>>, calc_run_id |-> calc_run_id,
                              df_factor |-> df_factor]
            /\ store_ret' = [status |-> "ValueError", factor_id |-> 0]
            /\ UNCHANGED <<factor_definitions, factor_values>>
       ELSE LET reg == RegisterDefinition(factor_definitions, MetaDefinition(factor_meta))
                upsert == MergeValues(factor_values,
                                      FactorInsertRows(df_factor, reg.factor_id,
                                                       calc_run_id, clock),
                                      securities)
            IN  /\ store_args' = [op |-> "register_and_insert_factor",
                                  name |-> factor_meta.name,
                                  params_json |-> factor_meta.params_json,
                                  calc_run_id |-> calc_run_id,
                                  df_factor |-> df_factor]
                /\ factor_definitions' = reg.defs
                /\ IF ~({"security_id", "trade_date", "value"} \subseteq df_factor.columns)
                   THEN /\ store_ret' = [status |-> "ValueError",
                                         factor_id |-> reg.factor_id]
                        /\ UNCHANGED factor_values
                   ELSE /\ factor_values' = upsert.values
                        /\ store_ret' = [status |-> IF upsert.ok THEN "ok"
                                                    ELSE "RuntimeError",
                                         factor_id |-> reg.factor_id]

\* register_and_insert_factor(con, df_factor, factor_meta, calc_run_id) called
\* on its own
RegisterAndInsertFactor(df_factor, factor_meta, calc_run_id) ==
    /\ RegisterAndInsert(df_factor, factor_meta, calc_run_id)
    /\ UNCHANGED <<txVars, btVars, prices, fundamentals, securities, momVars, loadVars, ppVars, valVars>>

NoFrame == [columns |-> {}, rows |-> <<>>]

\* the two runs that persist at the same time, each on its own connection
Procs == {1, 2}

OtherProc(p) == 3 - p

\* a run that has not been started
NoTx ==
    [pc |-> "idle", df_factor |-> NoFrame, factor_meta |-> <<>>, calc_run_id |-> <<>>,
     factor_id |-> 0, rows |-> {}, seen |-> 0, ret |-> "none"]

TxIdle ==
    /\ tx = [p \in Procs |-> NoTx]
    /\ commits = <<>>

\* mutant: the update leaves calc_run_id and updated_at of the matched row
UpdateSet_KeepRun(t, s) ==
    [t EXCEPT !.value = s.value, !.zscore_cross = s.zscore_cross,
              !.rank_cross = s.rank_cross,
              !.zscore_cross_sector = s.zscore_cross_sector,
              !.rank_cross_sector = s.rank_cross_sector]

\* WHEN MATCHED THEN UPDATE SET value = s.value, ..., updated_at = s.updated_at
UpdateSet(t, s) ==
    [t EXCEPT !.value = s.value, !.zscore_cross = s.zscore_cross,
              !.rank_cross = s.rank_cross,
              !.zscore_cross_sector = s.zscore_cross_sector,
              !.rank_cross_sector = s.rank_cross_sector,
              !.calc_run_id = s.calc_run_id, !.updated_at = s.updated_at]

\* the MERGE statement row by row: a matched row of t is updated from its
\* source row, an unmatched source row is inserted
MergeInto(t, src) ==
    {IF \E r \in src : ValueKey(r) = ValueKey(v)
     THEN UpdateSet(v, CHOOSE r \in src : ValueKey(r) = ValueKey(v))
     ELSE v : v \in t}
    \cup {r \in src : \A v \in t : ValueKey(r) # ValueKey(v)}

\* the keys a set of rows is stored under
KeysOf(rows) == {ValueKey(r) : r \in rows}

\* run q committed after the con.begin() of run p
CommittedSince(p, q) == \E i \in (tx[p].seen + 1)..Len(commits) : commits[i] = q

\* the transaction of p and a transaction of the other run write one key,
\* the other one being open with its MERGE done or having committed after p's
\* con.begin()
WriteConflict(p) ==
    LET q == OtherProc(p)
    IN  /\ KeysOf(tx[p].rows) \cap KeysOf(tx[q].rows) # {}
        /\ \/ tx[q].pc = "merged"
           \/ CommittedSince(p, q)

\* what no step of a concurrent run touches
TxRest == <<btVars, prices, fundamentals, securities, momVars, loadVars, ppVars, valVars>>

\* steps 2 of run p once its factor_id is known: the column check and
\* df_to_insert with the clock read for updated_at
TxPrepare(p, factor_id) ==
    IF ~({"security_id", "trade_date", "value"} \subseteq tx[p].df_factor.columns)
    THEN /\ tx' = [tx EXCEPT ![p].pc = "failed", ![p].factor_id = factor_id,
                             ![p].ret = "ValueError"]
         /\ UNCHANGED clock
    ELSE /\ tx' = [tx EXCEPT ![p].pc = "prepared", ![p].factor_id = factor_id,
                             ![p].rows = FactorInsertRows(tx[p].df_factor, factor_id,
                                                          tx[p].calc_run_id, clock)]
         /\ clock' = clock + 1

\* SELECT factor_id FROM factor_definitions WHERE name = ? on the connection
\* of run p, and df_to_insert when the name has a row
TxSelectFactor(p) ==
    /\ tx[p].pc = "start"
    /\ IF RequiredMetaKeys \ DOMAIN tx[p].factor_meta # {}
       THEN /\ tx' = [tx EXCEPT ![p].pc = "failed", ![p].ret = "ValueError"]
            /\ UNCHANGED clock
       ELSE LET found == SelectFactorId(factor_definitions, tx[p].factor_meta.name)
            IN  IF found = 0
                THEN /\ tx' = [tx EXCEPT ![p].pc = "unregistered"]
                     /\ UNCHANGED clock
                ELSE TxPrepare(p, found)
    /\ UNCHANGED <<factor_definitions, factor_values, store_args, store_ret, commits>>
    /\ UNCHANGED TxRest

\* SELECT COALESCE(MAX(factor_id), 0) + 1 FROM factor_definitions
TxNextFactorId(p) ==
    /\ tx[p].pc = "unregistered"
    /\ tx' = [tx EXCEPT ![p].pc = "numbered",
                        ![p].factor_id = NextFactorId(factor_definitions)]
    /\ UNCHANGED <<storeVars, commits, TxRest>>

\* INSERT INTO factor_definitions, autocommitted; factor_id is the PRIMARY
\* KEY and name is UNIQUE, so the insert of a run that lost the race raises
TxInsertDefinition(p) ==
    /\ tx[p].pc = "numbered"
    /\ IF \E i \in 1..Len(factor_definitions) :
              \/ factor_definitions[i].factor_id = tx[p].factor_id
              \/ factor_definitions[i].name = tx[p].factor_meta.name
       THEN /\ tx' = [tx EXCEPT ![p].pc = "failed", ![p].ret = "ConstraintException"]
            /\ UNCHANGED <<factor_definitions, clock>>
       ELSE /\ factor_definitions' =
                   Append(factor_definitions,
                          [factor_id |-> tx[p].factor_id]
                              @@ MetaDefinition(tx[p].factor_meta))
            /\ TxPrepare(p, tx[p].factor_id)
    /\ UNCHANGED <<factor_values, store_args, store_ret, commits, TxRest>>

\* con.begin(): the transaction of p sees factor_values as committed so far
TxBegin(p) ==
    /\ tx[p].pc = "prepared"
    /\ tx' = [tx EXCEPT ![p].pc = "begun", ![p].seen = Len(commits)]
    /\ UNCHANGED <<storeVars, commits, TxRest>>

\* con.rollback() and the RuntimeError of the except branch
TxAbort(p) ==
    /\ tx' = [tx EXCEPT ![p].pc = "failed", ![p].ret = "RuntimeError"]
    /\ UNCHANGED <<storeVars, commits>>

\* con.execute(MERGE ...) inside the transaction of p: a row of a security
\* that is not in securities fails it. On a write conflict the engine raises
\* here, or lets the statement through
TxMerge(p) ==
    /\ tx[p].pc = "begun"
    /\ \/ /\ WriteConflict(p) \/ ~ForeignKeysHold(tx[p].rows, securities)
          /\ TxAbort(p)
       \/ /\ ForeignKeysHold(tx[p].rows, securities)
          /\ tx' = [tx EXCEPT ![p].pc = "merged"]
          /\ UNCHANGED <<storeVars, commits>>
    /\ UNCHANGED TxRest

\* con.commit(): the rows of the MERGE become the committed rows of their
\* keys. On a write conflict the engine raises here, or lets the later
\* commit write over the earlier one
TxCommit(p) ==
    /\ tx[p].pc = "merged"
    /\ \/ /\ WriteConflict(p)
          /\ TxAbort(p)
       \/ /\ factor_values' = MergeInto(factor_values, tx[p].rows)
          /\ commits' = Append(commits, p)
          /\ tx' = [tx EXCEPT ![p].pc = "done", ![p].ret = "ok"]
          /\ UNCHANGED <<factor_definitions, clock, store_args, store_ret>>
    /\ UNCHANGED TxRest

NoStoreArgs ==
    [op |-> "none", name |-> <<>>, params_json |-> <<>>, calc_run_id |-> <<>>,
     df_factor |-> NoFrame]

StoreIdle ==
    /\ factor_definitions = <<>>
    /\ factor_values = {}
    /\ clock = 0
    /\ store_args = NoStoreArgs
    /\ store_ret = [status |-> "none", factor_id |-> 0]

----------------------------------------------------------------------------
(* Momentum: src/factors/momentum/momentum.py *)

\* mutant: the lookback is not validated
ValidateInputs_NoLookbackCheck(lookback_months, skip_months, tpm) ==
    /\ skip_months >= 0
    /\ tpm > 0

\* _validate_inputs: TRUE when no ValueError is raised
ValidateInputs(lookback_months, skip_months, tpm) ==
    /\ lookback_months > 0
    /\ skip_months >= 0
    /\ tpm > 0

\* mutant: the finiteness test on the numerator window is dropped
MomentumValid_NoNumCheck(num, den) ==
    ~IsZero(den) /\ IsFinite(den)

\* valid = (den != 0) & np.isfinite(den) & np.isfinite(num)
MomentumValid(num, den) ==
    ~IsZero(den) /\ IsFinite(den) /\ IsFinite(num)

\* _momentum_from_prices(arr, lookback, skip); arr is 1-indexed here, so the
\* python position t is index t+1
MomentumFromPrices(arr, lookback, skip) ==
    LET n == Len(arr)
    IN  IF n > lookback + skip
        THEN LET num == SubSeq(arr, lookback + 1, n - skip)
                 den == SubSeq(arr, 1, n - lookback - skip)
                 tmp == [j \in 1..(n - (lookback + skip)) |->
                            IF MomentumValid(num[j], den[j])
                            THEN FSub(FDiv(num[j], den[j]), Num(1))
                            ELSE NaN]
             IN  [i \in 1..n |-> IF i <= lookback + skip THEN NaN
                                 ELSE tmp[i - (lookback + skip)]]
        ELSE [i \in 1..n |-> NaN]

\* the cleaned price rows of one security, ascending by trade_date:
\* WHERE price IS NOT NULL ... dropna ... sort_values
RECURSIVE DatesFrom(_, _, _)
DatesFrom(tbl, sid, d) ==
    IF d > MaxDate THEN <<>>
    ELSE (IF IsNa(tbl[sid, d]) THEN <<>> ELSE <<d>>) \o DatesFrom(tbl, sid, d + 1)

SeriesDates(tbl, sid) == DatesFrom(tbl, sid, 1)
Series(tbl, sid) ==
    LET ds == SeriesDates(tbl, sid) IN [i \in 1..Len(ds) |-> tbl[sid, ds[i]]]

PricesEmpty(tbl) == \A s \in Sids : SeriesDates(tbl, s) = <<>>

\* mutant: no grouping, the window runs over the rows of all securities
MomentumByGroup_Pooled(tbl, lookback, skip) ==
    [s \in Sids |->
        LET pooled == Series(tbl, 1) \o Series(tbl, 2) \o Series(tbl, 3)
            offset == IF s = 1 THEN 0
                      ELSE IF s = 2 THEN Len(Series(tbl, 1))
                      ELSE Len(Series(tbl, 1)) + Len(Series(tbl, 2))
        IN  [i \in 1..Len(Series(tbl, s)) |->
                MomentumFromPrices(pooled, lookback, skip)[offset + i]]]

\* step 3: the grouped apply, one output array per security
MomentumByGroup(tbl, lookback, skip) ==
    [s \in Sids |-> MomentumFromPrices(Series(tbl, s), lookback, skip)]

\* step 4: df_factor keeps the rows whose value is not NaN, in (security, date) order
RECURSIVE FactorRowsOf(_, _, _, _)
FactorRowsOf(tbl, value, sid, i) ==
    LET ds == SeriesDates(tbl, sid)
    IN  IF i > Len(ds) THEN <<>>
        ELSE (IF IsNa(value[sid][i]) THEN <<>>
              ELSE <<[security_id |-> sid, trade_date |-> ds[i], value |-> value[sid][i]]>>)
             \o FactorRowsOf(tbl, value, sid, i + 1)

MomentumFactorRows(tbl, value) ==
    FactorRowsOf(tbl, value, 1, 1) \o FactorRowsOf(tbl, value, 2, 1)
        \o FactorRowsOf(tbl, value, 3, 1)

NoArgs == [lookback_months |-> 0, skip_months |-> 0, tpm |-> 0]
NoValue == [s \in Sids |-> <<>>]

\* the factor_definitions row compute_momentum registers
MomentumName(lookback_months, skip_months) ==
    <<"momentum_", lookback_months, "m_skip_", skip_months, "m">>

MomentumDefinition(lookback_months, skip_months) ==
    [name |-> MomentumName(lookback_months, skip_months),
     category |-> "momentum",
     params_json |-> <<<<"lookback_months", lookback_months>>,
                       <<"skip_months", skip_months>>>>,
     description |-> <<"Price momentum over ", lookback_months,
                       " months skipping most recent ", skip_months, " months.">>,
     version |-> 1,
     expression |-> "momentum = P[t-skip] / P[t-skip-lookback] - 1",
     source |-> "prices",
     is_active |-> TRUE,
     tags |-> "momentum,price"]

\* df_to_insert of compute_momentum: the score columns the INSERT names are
\* NULL, the sector columns it does not name take the column default NULL
MomentumInsertRows(df_factor, factor_id, calc_run_id, now) ==
    {[security_id |-> df_factor[i].security_id,
      trade_date |-> df_factor[i].trade_date,
      factor_id |-> factor_id,
      value |-> df_factor[i].value,
      zscore_cross |-> NULL, rank_cross |-> NULL,
      zscore_cross_sector |-> NULL, rank_cross_sector |-> NULL,
      calc_run_id |-> RunId(calc_run_id, now),
      updated_at |-> now] : i \in 1..Len(df_factor)}

\* compute_momentum(con, lookback_months, skip_months, trading_days_per_month=tpm,
\*                  save_to_db=save_to_db, calc_run_id=calc_run_id)
ComputeMomentum(lookback_months, skip_months, tpm, save_to_db, calc_run_id) ==
    /\ mom_args' = [lookback_months |-> lookback_months,
                    skip_months |-> skip_months, tpm |-> tpm]
    /\ IF ~ValidateInputs(lookback_months, skip_months, tpm) \/ PricesEmpty(prices)
       THEN /\ mom_value' = NoValue
            /\ mom_ret' = [status |-> "ValueError", rows |-> <<>>]
            /\ IF save_to_db
               THEN /\ store_args' = [op |-> "compute_momentum",
                                      name |-> MomentumName(lookback_months, skip_months),
                                      params_json |-> <<>>, calc_run_id |-> calc_run_id,
                                      df_factor |-> NoFrame]
                    /\ store_ret' = [status |-> "ValueError", factor_id |-> 0]
                    /\ clock' = clock + 1
                    /\ UNCHANGED <<factor_definitions, factor_values>>
               ELSE UNCHANGED storeVars
       ELSE LET lookback == lookback_months * tpm
                skip == skip_months * tpm
                value == MomentumByGroup(prices, lookback, skip)
                df_factor == MomentumFactorRows(prices, value)
                reg == RegisterDefinition(factor_definitions,
                                          MomentumDefinition(lookback_months, skip_months))
                ins == InsertValues(factor_values,
                                    MomentumInsertRows(df_factor, reg.factor_id,
                                                       calc_run_id, clock),
                                    securities)
            IN  /\ mom_value' = value
                /\ IF ~save_to_db
                   THEN /\ mom_ret' = [status |-> "ok", rows |-> df_factor]
                        /\ UNCHANGED storeVars
                   ELSE /\ store_args' = [op |-> "compute_momentum",
                                          name |-> MomentumName(lookback_months, skip_months),
                                          params_json |->
                                              MomentumDefinition(lookback_months,
                                                                 skip_months).params_json,
                                          calc_run_id |-> calc_run_id,
                                          df_factor |->
                                              [columns |-> {"security_id", "trade_date",
                                                            "value", "factor_name"},
                                               rows |-> df_factor]]
                        /\ factor_definitions' = reg.defs
                        /\ factor_values' = ins.values
                        /\ clock' = clock + 1
                        /\ IF ins.ok
                           THEN /\ mom_ret' = [status |-> "ok", rows |-> df_factor]
                                /\ store_ret' = [status |-> "ok",
                                                 factor_id |-> reg.factor_id]
                           ELSE /\ mom_ret' = [status |-> "ConstraintException",
                                               rows |-> <<>>]
                                /\ store_ret' = [status |-> "ConstraintException",
                                                 factor_id |-> reg.factor_id]
    /\ UNCHANGED <<txVars, btVars, prices, fundamentals, securities, loadVars, ppVars, valVars>>

----------------------------------------------------------------------------
(* Price / fundamentals loader: src/utils/factor_data.py *)

\* the metrics requested by the caller (the `metrics` argument of
\* compute_value_factors)
MetricList ==
    <<"eps", "total_stockholders_equity", "market_capitalization", "free_cash_flow",
      "revenue", "operating_income", "enterprise_value">>
Metrics == Range(MetricList)

NoFundamentals == [f \in Sids \X Dates \X Metrics |-> NULL]
NoMerged == [s \in Sids |-> <<>>]
NaNCols == [m \in Metrics |-> NaN]

FundamentalsEmpty(fund) == \A f \in DOMAIN fund : IsNa(fund[f])

\* load_fundamentals_wide: pivot_table(index=[security_id, period_end],
\* columns=metric, aggfunc="last"); one row per (security, period_end) that has
\* at least one non-null value, NaN in the columns that period lacks.
RECURSIVE WideFrom(_, _, _)
WideFrom(fund, sid, pe) ==
    IF pe > MaxDate THEN <<>>
    ELSE (IF \A m \in Metrics : IsNa(fund[sid, pe, m]) THEN <<>>
          ELSE <<[period_end |-> pe,
                  cols |-> [m \in Metrics |->
                              IF IsNa(fund[sid, pe, m]) THEN NaN ELSE fund[sid, pe, m]]]>>)
         \o WideFrom(fund, sid, pe + 1)

\* df_wide: the pivot rows, here grouped by security, ascending by period_end
LoadFundamentalsWide(fund) == [s \in Sids |-> WideFrom(fund, s, 1)]

\* mutant: direction="forward" (first period_end >= trade_date)
AsofMatches_Forward(period_end, trade_date) == period_end >= trade_date

\* merge_asof(direction="backward", allow_exact_matches=True): a right row is a
\* candidate for a left row when period_end <= trade_date
AsofMatches(period_end, trade_date) == period_end <= trade_date

\* the right row merge_asof attaches to trade_date: the candidate nearest to it
\* (0 when there is none)
AsofIndex(wide, trade_date) ==
    LET cand == {j \in 1..Len(wide) : AsofMatches(wide[j].period_end, trade_date)}
    IN  IF cand = {} THEN 0
        ELSE CHOOSE j \in cand :
                \A j2 \in cand : Abs(wide[j2].period_end - trade_date)
                                   >= Abs(wide[j].period_end - trade_date)

\* dff = df_fund[df_fund["security_id"] == sid]
FundOfSecurity(df_fund, sid) == df_fund[sid]

\* merge_prices_and_fundamentals for one security: the price rows (ascending)
\* with the as-of fundamentals row attached
MergeOneSecurity(tbl, df_fund, sid) ==
    LET ds == SeriesDates(tbl, sid)
        wide == FundOfSecurity(df_fund, sid)
    IN  [i \in 1..Len(ds) |->
            LET j == AsofIndex(wide, ds[i])
            IN  [trade_date |-> ds[i],
                 price |-> tbl[sid, ds[i]],
                 period_end |-> IF j = 0 THEN 0 ELSE wide[j].period_end,
                 cols |-> IF j = 0 THEN NaNCols ELSE wide[j].cols]]

\* groupby("security_id")[fund_cols].ffill(): a NaN cell takes the last non-NaN
\* value above it in the same security and column
RECURSIVE Ffill(_, _)
Ffill(rows, last) ==
    IF rows = <<>> THEN <<>>
    ELSE LET r == Head(rows)
             filled == [m \in Metrics |-> IF IsNa(r.cols[m]) THEN last[m] ELSE r.cols[m]]
         IN  <<[r EXCEPT !.cols = filled]>> \o Ffill(Tail(rows), filled)

\* load_prices_with_fundamentals(con, metrics): load_price_history and
\* load_fundamentals_wide raise ValueError on an empty table; otherwise the
\* as-of merge followed by the per-security forward fill
LoadedFrame(tbl, fund) ==
    IF PricesEmpty(tbl) \/ FundamentalsEmpty(fund)
    THEN [status |-> "ValueError", frame |-> NoMerged]
    ELSE [status |-> "ok",
          frame |-> [s \in Sids |->
                        Ffill(MergeOneSecurity(tbl, LoadFundamentalsWide(fund), s),
                              NaNCols)]]

LoadPricesWithFundamentals ==
    /\ load_ret = "none"
    /\ load_ret' = LoadedFrame(prices, fundamentals).status
    /\ df_merged' = LoadedFrame(prices, fundamentals).frame
    /\ UNCHANGED <<txVars, btVars, prices, fundamentals, securities, momVars, ppVars, valVars, storeVars>>

----------------------------------------------------------------------------
(* Cross-sectional post-processing: src/utils/factor_postprocess.py *)
(* A frame is a sequence of rows; a groupby group is a set of row indices. *)
(* Floating point rounding is not modelled: a standard deviation is zero   *)
(* exactly when all the values of the group are equal.                      *)

NoSector == {"NULL", "absent"}

\* the rows of a group whose value is not NaN (pandas statistics skip NaN)
DefinedIn(df, G) == {j \in G : ~IsNa(df[j].value)}

RECURSIVE SumValues(_, _)
SumValues(df, G) ==
    IF G = {} THEN Num(0)
    ELSE LET j == CHOOSE j \in G : TRUE
         IN  FAdd(df[j].value, SumValues(df, G \ {j}))

RECURSIVE SumSquaredDev(_, _, _)
SumSquaredDev(df, G, mu) ==
    IF G = {} THEN Num(0)
    ELSE LET j == CHOOSE j \in G : TRUE
             dev == FSub(df[j].value, mu)
         IN  FAdd(FMul(dev, dev), SumSquaredDev(df, G \ {j}, mu))

\* x.mean(): NaN for a group without defined values
Mean(df, G) ==
    LET D == DefinedIn(df, G)
    IN  IF D = {} THEN NaN ELSE FDiv(SumValues(df, D), Num(Cardinality(D)))

\* x.std(ddof=0) squared, around the mean mu: NaN for a group without defined values
Variance(df, G, mu) ==
    LET D == DefinedIn(df, G)
    IN  IF D = {} THEN NaN
        ELSE FDiv(SumSquaredDev(df, D, mu), Num(Cardinality(D)))

\* mutant: no fallback, (x - mu) / sigma is 0/0 = NaN when sigma is 0
ZScore_NoFallback(df, G, i) ==
    LET mu == Mean(df, G)
        var == Variance(df, G, mu)
    IN  IF IsNa(var) \/ IsZero(var) \/ IsNa(df[i].value) THEN NaN
        ELSE DivSqrt(FSub(df[i].value, mu), var)

\* _zscore(x) at row i of group G
ZScore(df, G, i) ==
    LET mu == Mean(df, G)
        var == Variance(df, G, mu)
    IN  IF IsZero(var) \/ IsNa(var) THEN Num(0)
        ELSE IF IsNa(df[i].value) THEN NaN
        ELSE DivSqrt(FSub(df[i].value, mu), var)

\* the defined values of a group in ascending order
RECURSIVE SortedValues(_, _)
SortedValues(df, G) ==
    IF G = {} THEN <<>>
    ELSE LET j == CHOOSE j \in G : \A k \in G : ~FLess(df[k].value, df[j].value)
         IN  <<df[j].value>> \o SortedValues(df, G \ {j})

\* Series.quantile(q), linear interpolation between the two nearest ranks
Quantile(sorted, q) ==
    IF sorted = <<>> THEN NaN
    ELSE LET pos == FMul(q, Num(Len(sorted) - 1))
             lo == pos.n \div pos.d
             frac == FSub(pos, Num(lo))
         IN  IF lo + 2 > Len(sorted) THEN sorted[lo + 1]
             ELSE FAdd(sorted[lo + 1], FMul(frac, FSub(sorted[lo + 2], sorted[lo + 1])))

\* Series.clip(lower, upper); NaN stays NaN, a NaN threshold does not clip
Clip(x, lower, upper) ==
    IF IsNa(x) THEN x
    ELSE IF ~IsNa(lower) /\ FLess(x, lower) THEN lower
    ELSE IF ~IsNa(upper) /\ FLess(upper, x) THEN upper
    ELSE x

\* _winsorize_series(x, limits=(0.01, 0.01)) at row i of group G
WinsorizeSeries(df, G, i) ==
    LET sorted == SortedValues(df, DefinedIn(df, G))
    IN  Clip(df[i].value, Quantile(sorted, Rat(1, 100)), Quantile(sorted, Rat(99, 100)))

\* mutant: rank(method="min", pct=True): tied values share the lowest rank
RankFirstPct_Min(df, G, i) ==
    LET D == DefinedIn(df, G)
    IN  IF IsNa(df[i].value) THEN NaN
        ELSE Rat(1 + Cardinality({j \in D : FLess(df[j].value, df[i].value)}),
                 Cardinality(D))

\* groupby(...)["value"].rank(method="first", pct=True) at row i of group G:
\* rank by value, ties in frame order, divided by the number of ranked rows
RankFirstPct(df, G, i) ==
    LET D == DefinedIn(df, G)
    IN  IF IsNa(df[i].value) THEN NaN
        ELSE Rat(1 + Cardinality({j \in D : FLess(df[j].value, df[i].value)})
                   + Cardinality({j \in D : df[j].value = df[i].value /\ j < i}),
                 Cardinality(D))

\* groupby("trade_date")
DateGroup(df, i) == {j \in 1..Len(df) : df[j].trade_date = df[i].trade_date}

\* mutant: a missing sector is a group of its own (groupby(..., dropna=False))
SectorGroup_KeepNa(df, i) ==
    {j \in 1..Len(df) :
        /\ df[j].trade_date = df[i].trade_date
        /\ \/ df[j].sector = df[i].sector
           \/ df[j].sector \in NoSector /\ df[i].sector \in NoSector}

\* groupby(["trade_date", "sector"]): rows with a NaN sector are in no group
SectorGroup(df, i) ==
    IF df[i].sector \in NoSector THEN {}
    ELSE {j \in 1..Len(df) :
            df[j].trade_date = df[i].trade_date /\ df[j].sector = df[i].sector}

NoPostArgs == [called |-> FALSE, enable_sector_neutral |-> FALSE, enable_winsorize |-> FALSE]

\* postprocess_factor(con, df_factor, enable_sector_neutral, enable_winsorize)
\* with enable_log=False.  The winsorize step runs whatever enable_winsorize is.
PostprocessFrame(df_factor, secs, enable_sector_neutral, enable_winsorize) ==
    LET n == Len(df_factor)
        w == Frame([i \in 1..n |->
                [df_factor[i] EXCEPT
                    !.value = WinsorizeSeries(df_factor, DateGroup(df_factor, i), i)]])
        m == Frame([i \in 1..n |->
                [security_id |-> w[i].security_id,
                 trade_date |-> w[i].trade_date,
                 value |-> w[i].value,
                 zscore_cross |-> ZScore(w, DateGroup(w, i), i),
                 rank_cross |-> RankFirstPct(w, DateGroup(w, i), i),
                 sector |-> IF enable_sector_neutral THEN secs[w[i].security_id]
                            ELSE "NULL"]])
    IN  Frame([i \in 1..n |->
            [security_id |-> m[i].security_id,
             trade_date |-> m[i].trade_date,
             value |-> m[i].value,
             zscore_cross |-> m[i].zscore_cross,
             rank_cross |-> m[i].rank_cross,
             sector |-> m[i].sector,
             zscore_cross_sector |->
                IF ~enable_sector_neutral THEN NULL
                ELSE IF SectorGroup(m, i) = {} THEN NaN
                ELSE ZScore(m, SectorGroup(m, i), i),
             rank_cross_sector |->
                IF ~enable_sector_neutral THEN NULL
                ELSE IF SectorGroup(m, i) = {} THEN NaN
                ELSE RankFirstPct(m, SectorGroup(m, i), i)]])

PostprocessFactor(enable_sector_neutral, enable_winsorize) ==
    /\ ~pp_args.called
    /\ pp_args' = [called |-> TRUE, enable_sector_neutral |-> enable_sector_neutral,
                   enable_winsorize |-> enable_winsorize]
    /\ pp_out' = PostprocessFrame(pp_in, securities, enable_sector_neutral, enable_winsorize)
    /\ UNCHANGED <<txVars, btVars, prices, fundamentals, securities, momVars, loadVars, pp_in, valVars,
                   storeVars>>

PostprocessIdle ==
    /\ pp_in = <<>>
    /\ pp_args = NoPostArgs
    /\ pp_out = <<>>

----------------------------------------------------------------------------
(* Value factors: src/factors/value/value.py *)

SubFactorsAll ==
    <<"earnings_yield", "book_to_market", "free_cash_flow_yield", "sales_to_price",
      "operating_income_yield">>

\* the security compute_value_factors filters out of df_all
ExcludedSid == 504

\* every security is listed in securities, none carries a sector
UnlabelledSecurities == [s \in Sids |-> "NULL"]

\* numerator and denominator columns of a sub-factor (step 3)
Numerator(row, sf) ==
    CASE sf = "earnings_yield" -> row.cols["eps"]
      [] sf = "book_to_market" -> row.cols["total_stockholders_equity"]
      [] sf = "free_cash_flow_yield" -> row.cols["free_cash_flow"]
      [] sf = "sales_to_price" -> row.cols["revenue"]
      [] sf = "operating_income_yield" -> row.cols["operating_income"]

Denominator(row, sf) ==
    CASE sf = "earnings_yield" -> row.price
      [] sf \in {"book_to_market", "free_cash_flow_yield", "sales_to_price"} ->
            row.cols["market_capitalization"]
      [] sf = "operating_income_yield" -> row.cols["enterprise_value"]

\* mutant: the denominator is only tested for being non-zero
DenominatorUsable_NonZero(den) == ~IsNa(den) /\ ~IsZero(den) /\ IsFinite(den)

\* (den > 0) & np.isfinite(den)
DenominatorUsable(den) == IsPositive(den) /\ IsFinite(den)

\* np.where((den > 0) & np.isfinite(den), num / den, np.nan)
SubFactor(row, sf) ==
    IF DenominatorUsable(Denominator(row, sf))
    THEN FDiv(Numerator(row, sf), Denominator(row, sf))
    ELSE NaN

\* df_all after step 3: per security, the merged rows with the raw sub-factors
RawSubFactors(frame) ==
    [s \in Sids |->
        IF s = ExcludedSid THEN <<>>
        ELSE Frame([i \in 1..Len(frame[s]) |->
                [trade_date |-> frame[s][i].trade_date,
                 price |-> frame[s][i].price,
                 cols |-> frame[s][i].cols,
                 raw |-> [sf \in Range(SubFactorsAll) |-> SubFactor(frame[s][i], sf)]]])]

\* a metric without any non-null record is no column of the pivot, and
\* df_all[metrics] raises KeyError
MissingColumns(fund) ==
    {m \in Metrics : \A s \in Sids, pe \in Dates : IsNa(fund[s, pe, m])}

\* the rows of one sub-factor whose value is not NaN, in (security, date) order
RECURSIVE DefinedRowsOf(_, _, _, _)
DefinedRowsOf(raw, sf, sid, i) ==
    IF i > Len(raw[sid]) THEN <<>>
    ELSE (IF IsNa(raw[sid][i].raw[sf]) THEN <<>>
          ELSE <<[security_id |-> sid, trade_date |-> raw[sid][i].trade_date,
                  value |-> raw[sid][i].raw[sf]]>>)
         \o DefinedRowsOf(raw, sf, sid, i + 1)

DefinedRows(raw, sf) ==
    DefinedRowsOf(raw, sf, 1, 1) \o DefinedRowsOf(raw, sf, 2, 1)
        \o DefinedRowsOf(raw, sf, 3, 1)

\* tmp["factor_name"] = sf
WithFactorName(tmp, sf) ==
    Frame([i \in 1..Len(tmp) |->
        [factor_name |-> sf, security_id |-> tmp[i].security_id,
         trade_date |-> tmp[i].trade_date, value |-> tmp[i].value,
         zscore_cross |-> tmp[i].zscore_cross, rank_cross |-> tmp[i].rank_cross,
         zscore_cross_sector |-> tmp[i].zscore_cross_sector,
         rank_cross_sector |-> tmp[i].rank_cross_sector]])

\* one turn of the loop of single mode: tmp for sub-factor sf, post-processed
\* (the singleton sets bind tmp to its value, computed once)
SingleFactorFrame(raw, secs, sf) ==
    CHOOSE out \in {WithFactorName(tmp, sf) :
                        tmp \in {PostprocessFrame(rows, secs, TRUE, TRUE) :
                                    rows \in {DefinedRows(raw, sf)}}} : TRUE

\* pd.concat(outputs)
RECURSIVE SingleOutputs(_, _, _)
SingleOutputs(raw, secs, factors) ==
    IF factors = <<>> THEN <<>>
    ELSE SingleFactorFrame(raw, secs, Head(factors))
            \o SingleOutputs(raw, secs, Tail(factors))

NoValArgs == [mode |-> "none", factors |-> <<>>]

\* compute_value_factors(con, mode="single", factors=factors, save_to_db=False)
ComputeValueFactorsSingle(factors) ==
    /\ val_ret.status = "none"
    /\ val_args' = [mode |-> "single", factors |-> factors]
    /\ \E loaded \in {LoadedFrame(prices, fundamentals)},
          raw \in {RawSubFactors(LoadedFrame(prices, fundamentals).frame)} :
           IF loaded.status # "ok"
           THEN val_raw' = NoMerged /\ val_ret' = [status |-> loaded.status, rows |-> <<>>]
           ELSE IF \A s \in Sids \ {ExcludedSid} : loaded.frame[s] = <<>>
           THEN val_raw' = NoMerged /\ val_ret' = [status |-> "empty", rows |-> <<>>]
           ELSE IF MissingColumns(fundamentals) # {}
           THEN val_raw' = NoMerged /\ val_ret' = [status |-> "KeyError", rows |-> <<>>]
           ELSE IF Range(factors) \ Range(SubFactorsAll) # {}
           THEN val_raw' = raw /\ val_ret' = [status |-> "ValueError", rows |-> <<>>]
           ELSE /\ val_raw' = raw
                /\ val_ret' = [status |-> "ok",
                               rows |-> SingleOutputs(raw, securities, factors)]
    /\ UNCHANGED <<txVars, btVars, prices, fundamentals, securities, momVars, loadVars, ppVars, storeVars>>

\* df_all as one frame, in (security, date) order, with the raw values of
\* sub-factor sf as its value column (NaN included)
SubFactorColumn(raw, sf) ==
    LET rows(s) == [i \in 1..Len(raw[s]) |->
                       [security_id |-> s, trade_date |-> raw[s][i].trade_date,
                        value |-> raw[s][i].raw[sf]]]
    IN  Frame(rows(1)) \o Frame(rows(2)) \o Frame(rows(3))

\* the non-negative integer whose square is n
IntRoot(n) == CHOOSE r \in 0..n : r * r = n

\* a z-score as a rational number; the cross-sections drawn here have at
\* most two defined values, whose z-scores are -1 and 1
ExactRoot(z) ==
    IF z.k # "sqrt" THEN z
    ELSE Rat((IF z.n < 0 THEN -1 ELSE 1) * IntRoot(Abs(z.n)), IntRoot(z.d))

\* df_all[f"{sf}_z"] = df_all.groupby("trade_date")[sf].transform(_zscore);
\* _zscore of value.py is the _zscore of factor_postprocess.py
ZColumn(raw, sf) ==
    CHOOSE z \in {Frame([i \in 1..Len(col) |->
                            ExactRoot(ZScore(col, DateGroup(col, i), i))]) :
                     col \in {SubFactorColumn(raw, sf)}} : TRUE

\* df_all[zcols].mean(axis=1, skipna=True) at row i
RECURSIVE ZSum(_, _, _)
ZSum(zcols, i, k) ==
    IF k > Len(zcols) THEN Num(0)
    ELSE IF IsNa(zcols[k][i]) THEN ZSum(zcols, i, k + 1)
    ELSE FAdd(zcols[k][i], ZSum(zcols, i, k + 1))

CompositeValue(zcols, i) ==
    LET defined == {k \in 1..Len(zcols) : ~IsNa(zcols[k][i])}
    IN  IF defined = {} THEN NaN
        ELSE FDiv(ZSum(zcols, i, 1), Num(Cardinality(defined)))

\* the rows whose composite is not NaN, in frame order
RECURSIVE CompositeRowsFrom(_, _, _)
CompositeRowsFrom(keys, zcols, i) ==
    IF i > Len(keys) THEN <<>>
    ELSE (IF IsNa(CompositeValue(zcols, i)) THEN <<>>
          ELSE <<[security_id |-> keys[i].security_id,
                  trade_date |-> keys[i].trade_date,
                  value |-> CompositeValue(zcols, i)]>>)
         \o CompositeRowsFrom(keys, zcols, i + 1)

\* step 4 up to postprocess_factor: df_factor of the selected sub-factors
CompositeFrame(raw, secs, selected, factor_name) ==
    CHOOSE out \in {WithFactorName(PostprocessFrame(rows, secs, TRUE, TRUE), factor_name) :
                       rows \in {CompositeRowsFrom(SubFactorColumn(raw, SubFactorsAll[1]),
                                                   zcols, 1) :
                                    zcols \in {Frame([k \in 1..Len(selected) |->
                                                        ZColumn(raw, selected[k])])}}} : TRUE

\* composite_factors is the string "all" ([all |-> TRUE]) or a list of names
AllComposite == [all |-> TRUE, names |-> <<>>]
ListedComposite(names) == [all |-> FALSE, names |-> names]

\* "_".join(selected), as the sequence of its pieces: no sub-factor name is
\* made of other names and separators, so two joins are the same string
\* exactly when they have the same pieces
RECURSIVE JoinNames(_)
JoinNames(names) ==
    IF names = <<>> THEN <<>>
    ELSE IF Len(names) = 1 THEN names
    ELSE <<Head(names), "_">> \o JoinNames(Tail(names))

\* the dynamic factor name
CompositeName(composite_factors) ==
    IF composite_factors.all THEN <<"value_composite_all">>
    ELSE <<"value_composite_">> \o JoinNames(composite_factors.names)

\* FactorMeta(...).to_dict() of composite mode
CompositeMeta(factor_name, selected) ==
    [name |-> factor_name, category |-> "value",
     params_json |-> <<<<"components", selected>>>>,
     description |-> <<"Composite of sub-factors: ", selected>>,
     version |-> 1, expression |-> "mean(z-subfactors)",
     source |-> "fundamentals + prices", is_active |-> TRUE,
     tags |-> "value,composite"]

\* compute_value_factors(con, mode="composite", composite_factors=...,
\*                       save_to_db=True, calc_run_id=calc_run_id)
ComputeValueFactorsComposite(composite_factors, calc_run_id) ==
    /\ val_args' = [mode |-> "composite", factors |-> composite_factors]
    /\ \E loaded \in {LoadedFrame(prices, fundamentals)},
          raw \in {RawSubFactors(LoadedFrame(prices, fundamentals).frame)} :
           IF loaded.status # "ok"
           THEN /\ val_raw' = NoMerged
                /\ val_ret' = [status |-> loaded.status, rows |-> <<>>]
                /\ UNCHANGED storeVars
           ELSE IF \A s \in Sids \ {ExcludedSid} : loaded.frame[s] = <<>>
           THEN /\ val_raw' = NoMerged
                /\ val_ret' = [status |-> "empty", rows |-> <<>>]
                /\ UNCHANGED storeVars
           ELSE IF MissingColumns(fundamentals) # {}
           THEN /\ val_raw' = NoMerged
                /\ val_ret' = [status |-> "KeyError", rows |-> <<>>]
                /\ UNCHANGED storeVars
           ELSE IF /\ ~composite_factors.all
                   /\ Range(composite_factors.names) \ Range(SubFactorsAll) # {}
           THEN /\ val_raw' = raw
                /\ val_ret' = [status |-> "ValueError", rows |-> <<>>]
                /\ UNCHANGED storeVars
           ELSE \E selected \in {IF composite_factors.all THEN SubFactorsAll
                                 ELSE composite_factors.names} :
                \E df_factor \in {CompositeFrame(raw, securities, selected,
                                                 CompositeName(composite_factors))} :
                   /\ val_raw' = raw
                   /\ RegisterAndInsert(
                          [columns |-> {"security_id", "trade_date", "value", "factor_name",
                                        "zscore_cross", "rank_cross",
                                        "zscore_cross_sector", "rank_cross_sector"},
                           rows |-> df_factor],
                          CompositeMeta(CompositeName(composite_factors), selected),
                          calc_run_id)
                   /\ val_ret' = [status |-> IF store_ret'.status = "ok" THEN "ok"
                                             ELSE store_ret'.status,
                                  rows |-> df_factor]
    /\ UNCHANGED <<txVars, btVars, prices, fundamentals, securities, momVars, loadVars, ppVars>>

ValueIdle ==
    /\ val_args = NoValArgs
    /\ val_raw = NoMerged
    /\ val_ret = [status |-> "none", rows |-> <<>>]

----------------------------------------------------------------------------
(* Weight construction: src/backtest/engine.py                              *)
(* A cross-section (one row of a wide frame) is a function on Assets; a     *)
(* wide frame is a function from the dates of the index to rows.            *)

Assets == {"A", "B", "C"}
AssetList == <<"A", "B", "C">>
BtDates == Dates

\* comparisons of pandas: False when either side is NaN
LessEq(x, y) == ~IsNa(x) /\ ~IsNa(y) /\ ~FLess(y, x)
Greater(x, y) == ~IsNa(x) /\ ~IsNa(y) /\ FLess(y, x)

AbsF(x) == IF IsNa(x) THEN NaN ELSE Rat(Abs(x.n), x.d)

\* mutant: an undefined weight is left undefined
FillNa_Keep(x) == x

\* fillna(0.0)
FillNa(x) == IF IsNa(x) THEN Num(0) ELSE x

\* row.sum() / frame.sum(axis=1): NaN is skipped, the empty sum is 0
RECURSIVE SumFrom(_, _)
SumFrom(row, i) ==
    IF i > Len(AssetList) THEN Num(0)
    ELSE IF IsNa(row[AssetList[i]]) THEN SumFrom(row, i + 1)
    ELSE FAdd(row[AssetList[i]], SumFrom(row, i + 1))

RowSum(row) == SumFrom(row, 1)

\* entries.sum(axis=1), entries.astype(float)
EntryCount(entries) == Cardinality({a \in Assets : entries[a]})
AsFloat(b) == IF b THEN Num(1) ELSE Num(0)

\* DataFrame.rank(axis=1, ascending=ascending): method='average', NaN stays NaN
RankRow(row, ascending) ==
    [a \in Assets |->
        IF IsNa(row[a]) THEN NaN
        ELSE LET before == {b \in Assets :
                               /\ ~IsNa(row[b])
                               /\ IF ascending THEN FLess(row[b], row[a])
                                  ELSE FLess(row[a], row[b])}
                 ties == {b \in Assets : row[b] = row[a]}
             IN  Rat(2 * Cardinality(before) + Cardinality(ties) + 1, 2)]

\* _calculate_weights on one date
CalculateWeightsRow(scores, entries, weighting) ==
    IF weighting = "equal"
    THEN [a \in Assets |-> FillNa(FDiv(AsFloat(entries[a]), Num(EntryCount(entries))))]
    ELSE LET selected_factors == [a \in Assets |->
                                     IF entries[a] THEN AbsF(scores[a]) ELSE NaN]
         IN  [a \in Assets |->
                 FillNa(FDiv(selected_factors[a], RowSum(selected_factors)))]

\* _calculate_weights
CalculateWeights(entries, weighting) ==
    [d \in BtDates |-> CalculateWeightsRow(bt_scores[d], entries[d], weighting)]

\* the period a trading day falls in. The calendar is scaled down: a week
\* ends after every second trading day, a month after every fourth, and the
\* first trading day is the last one of its week.
PeriodOf(d, freq) ==
    CASE freq = "D" -> d
      [] freq = "W" -> d \div 2
      [] freq = "ME" -> d \div 4

\* close_prices.index.to_series().resample(freq).last().dropna()
RebalanceDates(freq) ==
    {d \in BtDates : \A e \in BtDates : PeriodOf(e, freq) = PeriodOf(d, freq) => e <= d}

NaNRow == [a \in Assets |-> NaN]

\* _prepare_simulation_input
PrepareSimulationInput(weights, rebalance_freq) ==
    IF rebalance_freq = "" THEN weights
    ELSE LET freq == IF rebalance_freq = "M" THEN "ME" ELSE rebalance_freq
         IN  [d \in BtDates |->
                 IF d \in RebalanceDates(freq) THEN weights[d] ELSE NaNRow]

NoEntries == [d \in BtDates |-> [a \in Assets |-> FALSE]]
NoWeights == [d \in BtDates |-> NaNRow]
NoBtArgs ==
    [op |-> "none", top_n |-> 0, rebalance_freq |-> "", weighting |-> "",
     input_is_rank |-> FALSE, lower_threshold |-> NaN, upper_threshold |-> NaN]

\* run_top_n_strategy(top_n, rebalance_freq, weighting, input_is_rank=input_is_rank)
\* up to the call of the simulator
RunTopNStrategy(top_n, rebalance_freq, weighting, input_is_rank) ==
    /\ bt_args' = [op |-> "run_top_n_strategy", top_n |-> top_n,
                   rebalance_freq |-> rebalance_freq, weighting |-> weighting,
                   input_is_rank |-> input_is_rank,
                   lower_threshold |-> NaN, upper_threshold |-> NaN]
    /\ LET ranks == [d \in BtDates |->
                        IF input_is_rank THEN bt_scores[d] ELSE RankRow(bt_scores[d], FALSE)]
           long_entries == [d \in BtDates |->
                               [a \in Assets |-> LessEq(ranks[d][a], Num(top_n))]]
       IN  /\ bt_long' = long_entries
           /\ bt_short' = NoEntries
           /\ IF weighting \notin {"equal", "factor"}
              THEN /\ bt_signal' = NoWeights
                   /\ bt_weights' = NoWeights
                   /\ bt_ret' = "ValueError"
              ELSE /\ bt_signal' = CalculateWeights(long_entries, weighting)
                   /\ bt_weights' = PrepareSimulationInput(
                                       CalculateWeights(long_entries, weighting),
                                       rebalance_freq)
                   /\ bt_ret' = "ok"
    /\ UNCHANGED <<txVars, bt_scores, prices, fundamentals, securities, momVars, loadVars, ppVars,
                   valVars, storeVars>>

\* long_weights.add(short_weights, fill_value=0.0) of the two halves
CombineRow(long_weights, short_weights) ==
    [a \in Assets |-> FAdd(FMul(long_weights[a], Rat(1, 2)),
                           FMul(short_weights[a], Rat(-1, 2)))]

\* run_long_short_strategy(top_n, rebalance_freq, weighting, input_is_rank=input_is_rank)
\* up to the call of the simulator
RunLongShortStrategy(top_n, rebalance_freq, weighting, input_is_rank) ==
    /\ bt_args' = [op |-> "run_long_short_strategy", top_n |-> top_n,
                   rebalance_freq |-> rebalance_freq, weighting |-> weighting,
                   input_is_rank |-> input_is_rank,
                   lower_threshold |-> NaN, upper_threshold |-> NaN]
    /\ LET counts == [d \in BtDates |->
                         Cardinality({a \in Assets : ~IsNa(bt_scores[d][a])})]
           long_entries ==
               [d \in BtDates |->
                   [a \in Assets |->
                       IF input_is_rank THEN LessEq(bt_scores[d][a], Num(top_n))
                       ELSE LessEq(RankRow(bt_scores[d], FALSE)[a], Num(top_n))]]
           short_entries ==
               [d \in BtDates |->
                   [a \in Assets |->
                       IF input_is_rank
                       THEN Greater(bt_scores[d][a], Num(counts[d] - top_n))
                       ELSE LessEq(RankRow(bt_scores[d], TRUE)[a], Num(top_n))]]
           weights == [d \in BtDates |->
                          CombineRow(CalculateWeights(long_entries, weighting)[d],
                                     CalculateWeights(short_entries, weighting)[d])]
       IN  /\ bt_long' = long_entries
           /\ bt_short' = short_entries
           /\ IF weighting \notin {"equal", "factor"}
              THEN /\ bt_signal' = NoWeights
                   /\ bt_weights' = NoWeights
                   /\ bt_ret' = "ValueError"
              ELSE /\ bt_signal' = weights
                   /\ bt_weights' = PrepareSimulationInput(weights, rebalance_freq)
                   /\ bt_ret' = "ok"
    /\ UNCHANGED <<txVars, bt_scores, prices, fundamentals, securities, momVars, loadVars, ppVars,
                   valVars, storeVars>>

\* mutant: the count is used as it is
SafeCount_Raw(count) == count

\* count.replace(0, 1)
SafeCount(count) == IF count = 0 THEN 1 ELSE count

\* get_weights(entries, target_total) on one date
GetWeightsRow(entries, target_total) ==
    [a \in Assets |->
        FMul(FDiv(AsFloat(entries[a]), Num(SafeCount(EntryCount(entries)))), target_total)]

\* run_threshold_strategy(lower_threshold, upper_threshold, rebalance_freq) up
\* to the call of the simulator
RunThresholdStrategy(lower_threshold, upper_threshold, rebalance_freq) ==
    /\ bt_args' = [op |-> "run_threshold_strategy", top_n |-> 0,
                   rebalance_freq |-> rebalance_freq, weighting |-> "",
                   input_is_rank |-> FALSE,
                   lower_threshold |-> lower_threshold,
                   upper_threshold |-> upper_threshold]
    /\ LET long_entries == [d \in BtDates |->
                               [a \in Assets |-> Greater(bt_scores[d][a], upper_threshold)]]
           short_entries == [d \in BtDates |->
                                [a \in Assets |-> Greater(lower_threshold, bt_scores[d][a])]]
           weights == [d \in BtDates |->
                          [a \in Assets |->
                              FAdd(GetWeightsRow(long_entries[d], Rat(1, 2))[a],
                                   GetWeightsRow(short_entries[d], Rat(-1, 2))[a])]]
       IN  /\ bt_long' = long_entries
           /\ bt_short' = short_entries
           /\ bt_signal' = weights
           /\ bt_weights' = PrepareSimulationInput(weights, rebalance_freq)
           /\ bt_ret' = "ok"
    /\ UNCHANGED <<txVars, bt_scores, prices, fundamentals, securities, momVars, loadVars, ppVars,
                   valVars, storeVars>>

BacktestIdle ==
    /\ bt_scores = NoWeights
    /\ bt_args = NoBtArgs
    /\ bt_long = NoEntries
    /\ bt_short = NoEntries
    /\ bt_signal = NoWeights
    /\ bt_weights = NoWeights
    /\ bt_ret = "none"

----------------------------------------------------------------------------
(* Specification of the momentum computation over bounded price tables *)

\* prices the warehouse column can hold (DOUBLE): negative, zero, positive, infinite
PriceVals == {Num(-100), Num(0), Num(100), Num(110), Num(121), Inf}

FlatSeries == [d \in Dates |-> Num(100)]
NoSeries == [d \in Dates |-> NULL]

InitMomentum ==
    /\ \E s1 \in [Dates -> PriceVals \cup {NULL}], s2 \in {NoSeries, FlatSeries} :
          prices = [p \in Sids \X Dates |->
                       IF p[1] = 1 THEN s1[p[2]] ELSE IF p[1] = 2 THEN s2[p[2]] ELSE NULL]
    /\ mom_args = NoArgs
    /\ mom_value = NoValue
    /\ mom_ret = [status |-> "none", rows |-> <<>>]
    /\ fundamentals = NoFundamentals
    /\ df_merged = NoMerged
    /\ load_ret = "none"
    /\ securities = UnlabelledSecurities
    /\ PostprocessIdle
    /\ ValueIdle
    /\ StoreIdle
    /\ BacktestIdle
    /\ TxIdle

NextMomentum ==
    /\ mom_ret.status = "none"
    /\ \E lm \in 1..MaxLookbackMonths, sm \in 0..MaxSkipMonths, tpm \in 1..MaxTpm :
          ComputeMomentum(lm, sm, tpm, FALSE, <<>>)

SpecMomentum == InitMomentum /\ [][NextMomentum]_vars

----------------------------------------------------------------------------
(* Specification of the loader over bounded price and fundamentals tables *)

\* the join never inspects a value beyond its being null, so every record
\* carries a value of its own, which identifies it in the merged table
MetricCode(m) == CHOOSE i \in 1..Len(MetricList) : MetricList[i] = m
FundValueOf(sid, pe, m) == Num(100 * sid + 10 * pe + MetricCode(m))

\* the metrics that vary in this specification
JoinMetrics == {"eps", "market_capitalization"}

InitLoad ==
    /\ \E s1 \in [Dates -> {NULL, Num(100)}] :
          prices = [p \in Sids \X Dates |->
                       IF p[1] = 1 THEN s1[p[2]] ELSE IF p[1] = 2 THEN Num(100) ELSE NULL]
    /\ \E present \in SUBSET (Dates \X JoinMetrics), other \in SUBSET {<<2, "eps">>} :
          fundamentals = [f \in Sids \X Dates \X Metrics |->
                             IF \/ f[1] = 1 /\ <<f[2], f[3]>> \in present
                                \/ f[1] = 2 /\ <<f[2], f[3]>> \in other
                             THEN FundValueOf(f[1], f[2], f[3]) ELSE NULL]
    /\ df_merged = NoMerged
    /\ load_ret = "none"
    /\ mom_args = NoArgs
    /\ mom_value = NoValue
    /\ mom_ret = [status |-> "none", rows |-> <<>>]
    /\ securities = UnlabelledSecurities
    /\ PostprocessIdle
    /\ ValueIdle
    /\ StoreIdle
    /\ BacktestIdle
    /\ TxIdle

NextLoad == LoadPricesWithFundamentals

SpecLoad == InitLoad /\ [][NextLoad]_vars

----------------------------------------------------------------------------
(* Specification of the post-processing over bounded factor frames *)

PostDates == {1, 2}
PostVals == {Num(1), Num(2)}
PostRows == [security_id : Sids, trade_date : PostDates, value : PostVals]

\* the securities table: sector label, "NULL" sector, or no row ("absent")
SectorConfigs ==
    {<<"Tech", "Tech", "NULL">>, <<"Tech", "Energy", "absent">>}

\* a factor frame holds one row per (security_id, trade_date)
UniqueKeys(df) ==
    \A i, j \in 1..Len(df) :
        (df[i].security_id = df[j].security_id /\ df[i].trade_date = df[j].trade_date)
            => i = j

InitPost ==
    /\ pp_in \in {df \in SeqsUpTo(PostRows, MaxRows) : UniqueKeys(df)}
    /\ securities \in SectorConfigs
    /\ pp_args = NoPostArgs
    /\ pp_out = <<>>
    /\ prices = [p \in Sids \X Dates |-> NULL]
    /\ mom_args = NoArgs
    /\ mom_value = NoValue
    /\ mom_ret = [status |-> "none", rows |-> <<>>]
    /\ fundamentals = NoFundamentals
    /\ df_merged = NoMerged
    /\ load_ret = "none"
    /\ ValueIdle
    /\ StoreIdle
    /\ BacktestIdle
    /\ TxIdle

NextPost == \E sector_neutral \in BOOLEAN, winsorize \in BOOLEAN :
                PostprocessFactor(sector_neutral, winsorize)

SpecPost == InitPost /\ [][NextPost]_vars

----------------------------------------------------------------------------
(* Specification of the value factors (single mode) over bounded tables *)

\* what a denominator column can hold: nothing, negative, zero, positive, infinite
DenVals == {NULL, Num(-50), Num(0), Num(50), Inf}

\* the fundamentals of security 1 at period_end 1: the denominators and eps
\* vary, the other numerators are disclosed
FundOfFirst(mc, ev, eps, m) ==
    CASE m = "market_capitalization" -> mc
      [] m = "enterprise_value" -> ev
      [] m = "eps" -> eps
      [] OTHER -> Num(5)

InitValue ==
    /\ \E p2 \in {Num(-100), Num(0), Num(100), Inf}, p3 \in {NULL, Num(100)},
          q2 \in {NULL, Num(100)} :
          prices = [p \in Sids \X Dates |->
                       CASE p = <<1, 2>> -> p2
                         [] p = <<1, 3>> -> p3
                         [] p = <<2, 2>> -> q2
                         [] OTHER -> NULL]
    /\ \E mc \in DenVals, ev \in DenVals, eps \in {NULL, Num(5)}, second \in BOOLEAN :
          fundamentals = [f \in Sids \X Dates \X Metrics |->
                             CASE f[1] = 1 /\ f[2] = 1 -> FundOfFirst(mc, ev, eps, f[3])
                               [] f[1] = 2 /\ f[2] = 1 /\ second -> Num(10)
                               [] OTHER -> NULL]
    /\ securities = <<"Tech", "Tech", "NULL">>
    /\ ValueIdle
    /\ StoreIdle
    /\ BacktestIdle
    /\ TxIdle
    /\ PostprocessIdle
    /\ mom_args = NoArgs
    /\ mom_value = NoValue
    /\ mom_ret = [status |-> "none", rows |-> <<>>]
    /\ df_merged = NoMerged
    /\ load_ret = "none"

FactorLists ==
    {<<sf>> : sf \in Range(SubFactorsAll)}
        \cup {<<"earnings_yield", "book_to_market">>, <<"book_to_market", "price_to_book">>}

NextValue == \E factors \in FactorLists : ComputeValueFactorsSingle(factors)

SpecValue == InitValue /\ [][NextValue]_vars

----------------------------------------------------------------------------
(* Specification of the factor store under sequences of persisting calls *)

\* at most MaxCalls persisting calls in a behaviour
MaxCalls == 3

StorePrices ==
    [p \in Sids \X Dates |->
        IF p[1] = 1 /\ p[2] <= 3 THEN Num(100 + 10 * p[2]) ELSE NULL]

StoreNames == {<<"value_composite">>, MomentumName(1, 0)}
StoreParams == {<<<<"window", 1>>>>, <<<<"window", 2>>>>}

\* a complete factor_meta leaving version and is_active to their defaults
\* for the first parameter set and giving a version for the second
FullMeta(name, params_json) ==
    IF params_json = <<<<"window", 1>>>>
    THEN [name |-> name, category |-> "value", params_json |-> params_json,
          description |-> <<"window ", 1>>, expression |-> "e", source |-> "s",
          tags |-> "t"]
    ELSE [name |-> name, category |-> "value", params_json |-> params_json,
          description |-> <<"window ", 2>>, expression |-> "e", source |-> "s",
          tags |-> "t", version |-> 2]

\* value_composite under either parameter set, the momentum name under the
\* first, and a factor_meta without expression, source and tags
StoreMetas ==
    ({FullMeta(name, params_json) : name \in StoreNames, params_json \in StoreParams}
        \ {FullMeta(MomentumName(1, 0), <<<<"window", 2>>>>)})
        \cup {[name |-> <<"value_composite">>, category |-> "value",
               params_json |-> <<<<"window", 1>>>>, description |-> <<"window ", 1>>]}

AllColumns ==
    {"security_id", "trade_date", "value", "zscore_cross", "rank_cross",
     "zscore_cross_sector", "rank_cross_sector"}

ScoredRow(sid, d, v) ==
    [security_id |-> sid, trade_date |-> d, value |-> Num(v), zscore_cross |-> Num(v),
     rank_cross |-> Num(v), zscore_cross_sector |-> Num(v), rank_cross_sector |-> Num(v)]

\* a fully scored frame, a frame with the required columns only, a frame
\* without the value column, and a frame with a security that is not in
\* securities
StoreFrames ==
    {[columns |-> AllColumns, rows |-> <<ScoredRow(1, 1, 1)>>],
     [columns |-> {"security_id", "trade_date", "value"},
      rows |-> <<[security_id |-> 1, trade_date |-> 1, value |-> Num(2)],
                 [security_id |-> 1, trade_date |-> 2, value |-> Num(2)]>>],
     [columns |-> {"security_id", "trade_date"},
      rows |-> <<[security_id |-> 1, trade_date |-> 1]>>],
     [columns |-> AllColumns, rows |-> <<ScoredRow(2, 1, 3), ScoredRow(3, 1, 3)>>]}

StoreRuns == {<<>>, <<"r1">>}

\* (lookback_months, skip_months, trading_days_per_month): two windows the
\* stored prices fill, one they do not, and one invalid value of each parameter
StoreMomentumArgs ==
    {<<1, 0, 1>>, <<1, 1, 1>>, <<2, 1, 1>>, <<0, 0, 1>>, <<1, -1, 1>>, <<1, 0, 0>>}

InitStore ==
    /\ prices = StorePrices
    /\ fundamentals = NoFundamentals
    /\ securities = <<"Tech", "Tech", "absent">>
    /\ StoreIdle
    /\ BacktestIdle
    /\ TxIdle
    /\ ValueIdle
    /\ PostprocessIdle
    /\ mom_args = NoArgs
    /\ mom_value = NoValue
    /\ mom_ret = [status |-> "none", rows |-> <<>>]
    /\ df_merged = NoMerged
    /\ load_ret = "none"

NextStore ==
    \/ \E df_factor \in StoreFrames, factor_meta \in StoreMetas,
          calc_run_id \in StoreRuns :
          /\ clock < MaxCalls
          /\ RegisterAndInsertFactor(df_factor, factor_meta, calc_run_id)
    \/ \E a \in StoreMomentumArgs, calc_run_id \in StoreRuns :
          /\ clock < MaxCalls
          /\ ComputeMomentum(a[1], a[2], a[3], TRUE, calc_run_id)

SpecStore == InitStore /\ [][NextStore]_vars

----------------------------------------------------------------------------
(* Specification of two persisting runs on one store at the same time *)

\* the frame of a run: fully scored rows of security 1 carrying the number of
\* the run, on the first date, the second or both, or a frame without value
RunFrames(p) ==
    {[columns |-> AllColumns, rows |-> <<ScoredRow(1, 1, p)>>],
     [columns |-> AllColumns, rows |-> <<ScoredRow(1, 2, p)>>],
     [columns |-> AllColumns, rows |-> <<ScoredRow(1, 1, p), ScoredRow(1, 2, p)>>],
     [columns |-> {"security_id", "trade_date"},
      rows |-> <<[security_id |-> 1, trade_date |-> 1]>>]}

\* the store before the runs: empty, or value_composite registered by an
\* earlier run that wrote the first date
EarlierDefinitions ==
    <<[factor_id |-> 1] @@ MetaDefinition(FullMeta(<<"value_composite">>,
                                                   <<<<"window", 1>>>>))>>

EarlierValues ==
    FactorInsertRows([columns |-> AllColumns, rows |-> <<ScoredRow(1, 1, 0)>>],
                     1, <<"r0">>, 0)

InitConcurrent ==
    /\ \E f1 \in RunFrames(1), f2 \in RunFrames(2), name2 \in StoreNames :
          tx = [p \in Procs |->
                   [NoTx EXCEPT !.pc = "start",
                                !.df_factor = IF p = 1 THEN f1 ELSE f2,
                                !.factor_meta =
                                    FullMeta(IF p = 1 THEN <<"value_composite">> ELSE name2,
                                             <<<<"window", 1>>>>),
                                !.calc_run_id = IF p = 1 THEN <<"r1">> ELSE <<"r2">>]]
    /\ commits = <<>>
    /\ \E earlier \in BOOLEAN :
          /\ factor_definitions = IF earlier THEN EarlierDefinitions ELSE <<>>
          /\ factor_values = IF earlier THEN EarlierValues ELSE {}
    /\ clock = 1
    /\ store_args = NoStoreArgs
    /\ store_ret = [status |-> "none", factor_id |-> 0]
    /\ prices = StorePrices
    /\ fundamentals = NoFundamentals
    /\ securities = <<"Tech", "Tech", "absent">>
    /\ ValueIdle
    /\ BacktestIdle
    /\ PostprocessIdle
    /\ mom_args = NoArgs
    /\ mom_value = NoValue
    /\ mom_ret = [status |-> "none", rows |-> <<>>]
    /\ df_merged = NoMerged
    /\ load_ret = "none"

NextConcurrent ==
    \/ \E p \in Procs : TxSelectFactor(p)
    \/ \E p \in Procs : TxNextFactorId(p)
    \/ \E p \in Procs : TxInsertDefinition(p)
    \/ \E p \in Procs : TxBegin(p)
    \/ \E p \in Procs : TxMerge(p)
    \/ \E p \in Procs : TxCommit(p)

SpecConcurrent == InitConcurrent /\ [][NextConcurrent]_vars

----------------------------------------------------------------------------
(* Specification of the composite value factor over bounded tables and runs *)

\* at most MaxRuns persisting composite runs in a behaviour
MaxRuns == 2

\* security 1 at period_end 1: the denominators vary, the numerators are
\* disclosed; security 2, when it discloses, has every metric
FundOfComposite(mc, ev, second) ==
    [f \in Sids \X Dates \X Metrics |->
        CASE f[1] = 1 /\ f[2] = 1 ->
                (CASE f[3] = "market_capitalization" -> mc
                   [] f[3] = "enterprise_value" -> ev
                   [] OTHER -> Num(5))
          [] f[1] = 2 /\ f[2] = 1 /\ second -> Num(10)
          [] OTHER -> NULL]

CompositeSelections ==
    {AllComposite,
     ListedComposite(SubFactorsAll),
     ListedComposite(<<"earnings_yield", "book_to_market">>),
     ListedComposite(<<"book_to_market", "earnings_yield">>),
     ListedComposite(<<"book_to_market", "price_to_book">>)}

InitComposite ==
    /\ \E p2 \in {Num(0), Num(100)}, q2 \in {NULL, Num(100)} :
          prices = [p \in Sids \X Dates |->
                       CASE p = <<1, 2>> -> p2
                         [] p = <<2, 2>> -> q2
                         [] p = <<1, 3>> -> Num(100)
                         [] OTHER -> NULL]
    /\ \E mc \in {Num(0), Num(50)}, ev \in {Num(0), Num(50)}, second \in BOOLEAN :
          fundamentals = FundOfComposite(mc, ev, second)
    /\ securities = <<"Tech", "Tech", "NULL">>
    /\ ValueIdle
    /\ StoreIdle
    /\ BacktestIdle
    /\ TxIdle
    /\ PostprocessIdle
    /\ mom_args = NoArgs
    /\ mom_value = NoValue
    /\ mom_ret = [status |-> "none", rows |-> <<>>]
    /\ df_merged = NoMerged
    /\ load_ret = "none"

NextComposite ==
    \E composite_factors \in CompositeSelections, calc_run_id \in StoreRuns :
        /\ clock < MaxRuns
        /\ ComputeValueFactorsComposite(composite_factors, calc_run_id)

SpecComposite == InitComposite /\ [][NextComposite]_vars

----------------------------------------------------------------------------
(* Specification of the weight construction over bounded score frames *)

MaxTopN == 2

\* undefined, negative, zero and positive scores, with room for ties
ScoreVals == {NaN, Num(-2), Num(0), Rat(1, 2), Rat(3, 2)}

\* the scores of the dates after the first: distinct scores, rotated by date,
\* none of them above 1 on the odd dates
LaterScores(d) ==
    [a \in Assets |->
        CASE a = AssetList[1 + (d % 3)] -> IF d % 2 = 0 THEN Rat(3, 2) ELSE Rat(1, 2)
          [] a = AssetList[1 + ((d + 1) % 3)] -> IF d % 2 = 0 THEN Rat(1, 2) ELSE Num(0)
          [] OTHER -> Num(-2)]

Frequencies == {"", "D", "W", "M"}
Weightings == {"equal", "factor", "rank"}
Thresholds == {<<Num(-1), Num(1)>>, <<Num(1), Num(-1)>>}

InitBacktest ==
    /\ \E first \in [Assets -> ScoreVals] :
          bt_scores = [d \in BtDates |-> IF d = 1 THEN first ELSE LaterScores(d)]
    /\ bt_args = NoBtArgs
    /\ bt_long = NoEntries
    /\ bt_short = NoEntries
    /\ bt_signal = NoWeights
    /\ bt_weights = NoWeights
    /\ bt_ret = "none"
    /\ prices = [p \in Sids \X Dates |-> NULL]
    /\ fundamentals = NoFundamentals
    /\ securities = UnlabelledSecurities
    /\ StoreIdle
    /\ TxIdle
    /\ ValueIdle
    /\ PostprocessIdle
    /\ mom_args = NoArgs
    /\ mom_value = NoValue
    /\ mom_ret = [status |-> "none", rows |-> <<>>]
    /\ df_merged = NoMerged
    /\ load_ret = "none"

NextBacktest ==
    \/ \E top_n \in 1..MaxTopN, rebalance_freq \in Frequencies,
          weighting \in Weightings, input_is_rank \in BOOLEAN :
          /\ bt_ret = "none"
          /\ RunTopNStrategy(top_n, rebalance_freq, weighting, input_is_rank)
    \/ \E top_n \in 1..MaxTopN, rebalance_freq \in Frequencies,
          weighting \in Weightings, input_is_rank \in BOOLEAN :
          /\ bt_ret = "none"
          /\ RunLongShortStrategy(top_n, rebalance_freq, weighting, input_is_rank)
    \/ \E t \in Thresholds, rebalance_freq \in Frequencies :
          /\ bt_ret = "none"
          /\ RunThresholdStrategy(t[1], t[2], rebalance_freq)

SpecBacktest == InitBacktest /\ [][NextBacktest]_vars

----------------------------------------------------------------------------
(* Claims on the momentum computation *)

MomLookback == mom_args.lookback_months * mom_args.tpm
MomSkip == mom_args.skip_months * mom_args.tpm
MomPositions(s) == 1..Len(Series(prices, s))
\* numerator and denominator prices of python position t = i - 1
MomNum(s, i) == Series(prices, s)[i - MomSkip]
MomDen(s, i) == Series(prices, s)[i - MomSkip - MomLookback]
MomHasRow(s, i) ==
    \E r \in Range(mom_ret.rows) :
        r.security_id = s /\ r.trade_date = SeriesDates(prices, s)[i]

\* C1 (as stated): at every position t >= lookback+skip whose denominator is
\* positive and finite the value is price[t-skip]/price[t-skip-lookback] - 1,
\* and at every position t < lookback+skip there is no value.
C1_AsStated ==
    mom_ret.status = "ok" =>
        \A s \in Sids : \A i \in MomPositions(s) :
            IF i - 1 < MomLookback + MomSkip
            THEN IsNa(mom_value[s][i]) /\ ~MomHasRow(s, i)
            ELSE (IsFinite(MomDen(s, i)) /\ IsPositive(MomDen(s, i))) =>
                    mom_value[s][i] = FSub(FDiv(MomNum(s, i), MomDen(s, i)), Num(1))

\* C1 (amended): no value at any position t < lookback+skip; at a position
\* t >= lookback+skip with a positive finite denominator the value is the ratio
\* price[t-skip]/price[t-skip-lookback] - 1 when the numerator is finite, and
\* there is no value when the numerator is not finite.  Rows without a value
\* are absent from the output, rows with one are present.
C1_MomentumDefinedFromWindow ==
    mom_ret.status = "ok" =>
        \A s \in Sids : \A i \in MomPositions(s) :
            /\ i - 1 < MomLookback + MomSkip => IsNa(mom_value[s][i])
            /\ (/\ i - 1 >= MomLookback + MomSkip
                /\ IsFinite(MomDen(s, i)) /\ IsPositive(MomDen(s, i))) =>
                   IF IsFinite(MomNum(s, i))
                   THEN mom_value[s][i] = FSub(FDiv(MomNum(s, i), MomDen(s, i)), Num(1))
                   ELSE IsNa(mom_value[s][i])
            /\ MomHasRow(s, i) <=> ~IsNa(mom_value[s][i])

\* the documented scenario: A = [100, 110, 121], C = [100, 100, 100],
\* lookback = 1 period, skip = 0: momentum at index 2 is 0.10 and 0.0
C1_Witness ==
    /\ mom_ret.status = "ok"
    /\ MomLookback = 1 /\ MomSkip = 0
    /\ Series(prices, 1) = <<Num(100), Num(110), Num(121)>>
    /\ Series(prices, 2) = <<Num(100), Num(100), Num(100)>>
    /\ IsNa(mom_value[1][1])
    /\ mom_value[1][3] = Rat(1, 10)
    /\ mom_value[2][3] = Num(0)
    /\ Len(mom_ret.rows) = 4

\* C2 (as stated): a non-positive or non-finite denominator leaves the
\* position without a value (and without an output row); no error is raised.
C2_NonPositiveDenominatorUndefined ==
    mom_ret.status = "ok" =>
        \A s \in Sids : \A i \in MomPositions(s) :
            (/\ i - 1 >= MomLookback + MomSkip
             /\ ~(IsFinite(MomDen(s, i)) /\ IsPositive(MomDen(s, i)))) =>
                IsNa(mom_value[s][i]) /\ ~MomHasRow(s, i)

\* the prices table reduced to the prices of security s up to date d
OwnPricesUpTo(s, d) ==
    [p \in Sids \X Dates |-> IF p[1] = s /\ p[2] <= d THEN prices[p] ELSE NULL]

\* what compute_momentum with the arguments of the last call returns for
\* (s, d) on that reduced table, as a set of one value or none: the row of
\* (s, d) is the last row of the table, it is there when s has a price at d
\* and the value at the last position is defined
ValueOnOwnPrices(s, d) ==
    IF IsNa(prices[s, d]) THEN {}
    ELSE {v[Len(v)] :
            v \in {w \in {Frame(MomentumByGroup(OwnPricesUpTo(s, d),
                                                MomLookback, MomSkip)[s])} :
                      ~IsNa(w[Len(w)])}}

\* the value returned for (s, d): a set of one value, empty when no row is
\* returned for (s, d)
ReturnedValue(rows, s, d) ==
    {r.value : r \in {q \in Range(rows) : q.security_id = s /\ q.trade_date = d}}

\* C28: the value (or the absence of a value) returned for security s at
\* date d is the one returned on the table that holds nothing but the prices
\* of s up to d; two tables that agree on these prices therefore give the
\* same value for (s, d), whatever else they hold.
C28_OwnPricesUpToDateDecide ==
    mom_ret.status = "ok" =>
        \A s \in Sids, d \in Dates :
            ReturnedValue(mom_ret.rows, s, d)
                = ValueOnOwnPrices(s, d)

\* security 1 has the value 0.10 at date 2 in a table that also holds a later
\* price of security 1 and the prices of security 2
C28_Witness ==
    /\ mom_ret.status = "ok"
    /\ MomLookback = 1 /\ MomSkip = 0
    /\ ReturnedValue(mom_ret.rows, 1, 2) = {Rat(1, 10)}
    /\ ~IsNa(prices[1, 3])
    /\ prices[1, 3] # Num(121)
    /\ Series(prices, 2) # <<>>

----------------------------------------------------------------------------
(* Claims on the as-of join *)

MergedCells ==
    {<<s, i, m>> \in Sids \X (1..MaxDate) \X Metrics : i <= Len(df_merged[s])}
CellValue(c) == df_merged[c[1]][c[2]].cols[c[3]]
CellDate(c) == df_merged[c[1]][c[2]].trade_date
\* the period_ends of the security's records of the metric at or before date D
DisclosedBy(s, m, D) == {pe \in Dates : pe <= D /\ ~IsNa(fundamentals[s, pe, m])}
LatestDisclosure(s, m, D) ==
    CHOOSE pe \in DisclosedBy(s, m, D) : \A q \in DisclosedBy(s, m, D) : q <= pe

\* C3: every fundamental value attached to the row of trade_date D is the value
\* of a fundamentals record of the same security and metric with period_end <= D.
C3_NoLookAhead ==
    load_ret = "ok" =>
        \A c \in MergedCells :
            ~IsNa(CellValue(c)) =>
                \E pe \in DisclosedBy(c[1], c[3], CellDate(c)) :
                    fundamentals[c[1], pe, c[3]] = CellValue(c)

\* a row carries a value although a later disclosure with another value exists
C3_Witness ==
    /\ load_ret = "ok"
    /\ \E c \in MergedCells :
          /\ ~IsNa(CellValue(c))
          /\ \E pe \in Dates :
                /\ pe > CellDate(c)
                /\ ~IsNa(fundamentals[c[1], pe, c[3]])
                /\ fundamentals[c[1], pe, c[3]] # CellValue(c)

\* C4 (as stated): the value used on D is the value of the security's record of
\* that metric with the greatest period_end <= D, and is undefined only when
\* there is no such record.
C4_MostRecentDisclosureUsed ==
    load_ret = "ok" =>
        \A c \in MergedCells :
            IF DisclosedBy(c[1], c[3], CellDate(c)) = {}
            THEN IsNa(CellValue(c))
            ELSE CellValue(c) =
                    fundamentals[c[1], LatestDisclosure(c[1], c[3], CellDate(c)), c[3]]

----------------------------------------------------------------------------
(* Claims on the cross-sectional post-processing *)

OutRows == 1..Len(pp_out)
OutDateGroup(i) == {j \in OutRows : pp_out[j].trade_date = pp_out[i].trade_date}
Labelled(i) == securities[pp_out[i].security_id] \notin NoSector
\* the rows of the same date that carry the same sector label as row i
OutSectorGroup(i) ==
    {j \in OutDateGroup(i) :
        securities[pp_out[j].security_id] = securities[pp_out[i].security_id]}
\* the (winsorized) values of the group have standard deviation zero: all are
\* equal, which includes every group of fewer than 2 members
Degenerate(G) == \A j, k \in G : pp_out[j].value = pp_out[k].value
\* the z-score and the percentile rank of row i within the rows G
ExpectedZ(G, i) ==
    IF Degenerate(G) THEN Num(0)
    ELSE DivSqrt(FSub(pp_out[i].value, Mean(pp_out, G)),
                 Variance(pp_out, G, Mean(pp_out, G)))
ExpectedRank(G, i) ==
    Rat(1 + Cardinality({j \in G : FLess(pp_out[j].value, pp_out[i].value)})
          + Cardinality({j \in G : pp_out[j].value = pp_out[i].value /\ j < i}),
        Cardinality(G))

C7_PercentileRanks ==
    pp_args.called =>
        \A i \in OutRows :
            LET G == OutDateGroup(i)
                n == Cardinality(G)
            IN  /\ {pp_out[j].rank_cross : j \in G} = {Rat(k, n) : k \in 1..n}
                /\ \A j \in G :
                      /\ FLess(pp_out[i].value, pp_out[j].value) =>
                            FLess(pp_out[i].rank_cross, pp_out[j].rank_cross)
                      /\ (pp_out[i].value = pp_out[j].value /\ i < j) =>
                            FLess(pp_out[i].rank_cross, pp_out[j].rank_cross)

\* three securities on a date, two tied; the tied security seen first has the
\* larger security_id and still the smaller rank
C7_Witness ==
    /\ pp_args.called
    /\ \E i, j \in OutRows :
          /\ i < j
          /\ j \in OutDateGroup(i)
          /\ Cardinality(OutDateGroup(i)) = 3
          /\ pp_out[i].value = pp_out[j].value
          /\ pp_out[i].security_id > pp_out[j].security_id
          /\ pp_out[i].rank_cross = Rat(1, 3)
          /\ pp_out[j].rank_cross = Rat(2, 3)

\* C8: with sector neutralisation, a security without sector label gets no
\* sector z-score or rank and enters no sector group's statistics (those of a
\* labelled security are computed over the same-label rows of its date only);
\* its row is retained and it enters and receives the market-wide statistics.
C8_UnlabelledExcludedFromSectorStats ==
    (pp_args.called /\ pp_args.enable_sector_neutral) =>
        /\ Len(pp_out) = Len(pp_in)
        /\ \A i \in OutRows :
              /\ pp_out[i].security_id = pp_in[i].security_id
              /\ pp_out[i].trade_date = pp_in[i].trade_date
              /\ pp_out[i].zscore_cross = ExpectedZ(OutDateGroup(i), i)
              /\ pp_out[i].rank_cross = ExpectedRank(OutDateGroup(i), i)
              /\ IF Labelled(i)
                 THEN /\ pp_out[i].zscore_cross_sector = ExpectedZ(OutSectorGroup(i), i)
                      /\ pp_out[i].rank_cross_sector = ExpectedRank(OutSectorGroup(i), i)
                 ELSE /\ IsNa(pp_out[i].zscore_cross_sector)
                      /\ IsNa(pp_out[i].rank_cross_sector)

\* two securities of one sector and a security without label on the same date:
\* the unlabelled one has market statistics and no sector statistics
C8_Witness ==
    /\ pp_args.called /\ pp_args.enable_sector_neutral
    /\ \E i, j, u \in OutRows :
          /\ i # j /\ j \in OutSectorGroup(i) /\ Labelled(i)
          /\ u \in OutDateGroup(i) /\ ~Labelled(u)
          /\ pp_out[u].value # pp_out[i].value
          /\ IsNa(pp_out[u].zscore_cross_sector)
          /\ IsNa(pp_out[u].rank_cross_sector)
          /\ ~IsNa(pp_out[u].zscore_cross) /\ pp_out[u].zscore_cross # Num(0)
          /\ pp_out[u].rank_cross \in {Rat(1, 3), Rat(3, 3)}

\* C25: postprocess_factor called with enable_winsorize=False leaves every
\* raw value as it was passed.
C25_NoClippingWhenDisabled ==
    (pp_args.called /\ ~pp_args.enable_winsorize) =>
        /\ Len(pp_out) = Len(pp_in)
        /\ \A i \in 1..Len(pp_in) :
              /\ pp_out[i].security_id = pp_in[i].security_id
              /\ pp_out[i].trade_date = pp_in[i].trade_date
              /\ pp_out[i].value = pp_in[i].value

----------------------------------------------------------------------------
(* Claims on the value factors *)

ValueCells ==
    {<<s, i, sf>> \in Sids \X (1..MaxDate) \X Range(SubFactorsAll) : i <= Len(val_raw[s])}
\* the denominator of each sub-factor: price, market capitalization or
\* enterprise value
ClaimedDenominator(row, sf) ==
    IF sf = "earnings_yield" THEN row.price
    ELSE IF sf = "operating_income_yield" THEN row.cols["enterprise_value"]
    ELSE row.cols["market_capitalization"]
ValueHasRow(s, d, sf) ==
    \E r \in Range(val_ret.rows) :
        r.factor_name = sf /\ r.security_id = s /\ r.trade_date = d

\* C5: for each of the five sub-factors the raw ratio of a row is undefined
\* whenever its denominator is non-positive or non-finite; the single-mode
\* output holds a row exactly for the defined ratios of the requested
\* sub-factors, so an undefined ratio is omitted and never a zero.
C5_UndefinedRatioOmitted ==
    val_ret.status = "ok" =>
        \A c \in ValueCells :
            LET row == val_raw[c[1]][c[2]]
                den == ClaimedDenominator(row, c[3])
            IN  /\ ~(IsFinite(den) /\ IsPositive(den)) => IsNa(row.raw[c[3]])
                /\ c[3] \in Range(val_args.factors) =>
                      (ValueHasRow(c[1], row.trade_date, c[3]) <=> ~IsNa(row.raw[c[3]]))

\* book_to_market over a negative market capitalization: the row is left out
\* while the row of the other security is in the output
C5_Witness ==
    /\ val_ret.status = "ok"
    /\ "book_to_market" \in Range(val_args.factors)
    /\ Len(val_raw[1]) >= 1
    /\ val_raw[1][1].cols["market_capitalization"] = Num(-50)
    /\ ~IsNa(val_raw[1][1].cols["total_stockholders_equity"])
    /\ ~ValueHasRow(1, val_raw[1][1].trade_date, "book_to_market")
    /\ ValueHasRow(2, 2, "book_to_market")

\* C22: compute_value_factors in single mode with an unknown sub-factor name
\* in factors fails with the ValueError naming it, whatever the tables hold
\* and whichever valid names the list also has, before the history is loaded
\* and before any sub-factor is computed.
C22_UnknownNameFailsFirst ==
    (val_args.mode = "single" /\ Range(val_args.factors) \ Range(SubFactorsAll) # {}) =>
        /\ val_ret.status = "ValueError"
        /\ val_raw = NoMerged

\* the sub-factors the composite call selected
SelectedSubFactors ==
    IF val_args.factors.all THEN SubFactorsAll ELSE val_args.factors.names

\* the row of val_raw of security s on date d has a defined raw value for
\* some selected sub-factor
SomeSelectedDefined(s, d) ==
    \E i \in 1..Len(val_raw[s]), sf \in Range(SelectedSubFactors) :
        /\ val_raw[s][i].trade_date = d
        /\ ~IsNa(val_raw[s][i].raw[sf])

\* C26: in composite mode a (security, date) whose selected sub-factors are
\* all undefined has no output row, also on dates where a sub-factor's
\* cross-section is degenerate: an undefined sub-factor is never turned
\* into a z-score of 0.
C26_UndefinedHasNoCompositeRow ==
    (val_args.mode = "composite" /\ val_ret.status = "ok") =>
        \A r \in Range(val_ret.rows) : SomeSelectedDefined(r.security_id, r.trade_date)

\* the components recorded in the params of a composite definition
ComponentsOf(def) == Range(def.params_json[1][2])

\* C29: the name and the factor_id of a composite value factor depend only
\* on the set of selected sub-factors: the same components in another order,
\* or the five names listed instead of "all", register under one definition.
C29_OneDefinitionPerComponentSet ==
    \A i, j \in 1..Len(factor_definitions) :
        ComponentsOf(factor_definitions[i]) = ComponentsOf(factor_definitions[j]) => i = j

----------------------------------------------------------------------------
(* Claims on the factor store *)

\* the step is a persisting call that reached registration under a name
\* factor_definitions already holds at row i
ReRegisters(i) ==
    /\ clock' = clock + 1
    /\ store_ret'.factor_id # 0
    /\ i \in 1..Len(factor_definitions)
    /\ store_args'.name = factor_definitions[i].name

\* C9: a persisting call (register_and_insert_factor or compute_momentum with
\* save_to_db=True) made under a name that factor_definitions already holds
\* resolves the factor_id of the existing row, adds no row to
\* factor_definitions and leaves every existing row unchanged; the rows it
\* writes to factor_values carry that factor_id; names and factor_ids stay
\* unique in factor_definitions.
C9_ReRegistrationKeepsDefinition ==
    [][/\ \A i \in 1..Len(factor_definitions) :
            ReRegisters(i) =>
                /\ store_ret'.factor_id = factor_definitions[i].factor_id
                /\ factor_definitions' = factor_definitions
                /\ \A v \in factor_values' :
                      v.updated_at = clock => v.factor_id = factor_definitions[i].factor_id
       /\ \A i, j \in 1..Len(factor_definitions') :
            (factor_definitions'[i].name = factor_definitions'[j].name
                \/ factor_definitions'[i].factor_id = factor_definitions'[j].factor_id)
            => i = j]_vars

\* value_composite was registered first, then the momentum name by
\* register_and_insert_factor, and compute_momentum has now written its
\* values under the factor_id 2 of that earlier registration
C9_Witness ==
    /\ store_args.op = "compute_momentum"
    /\ store_ret = [status |-> "ok", factor_id |-> 2]
    /\ Len(factor_definitions) = 2
    /\ factor_definitions[2].name = MomentumName(1, 0)
    /\ factor_definitions[2].category = "value"
    /\ \E v \in factor_values : v.factor_id = 2 /\ v.updated_at = clock - 1
    /\ \E v \in factor_values : v.factor_id = 2 /\ v.updated_at < clock - 1

\* C10: register_and_insert_factor called under an existing name with
\* parameters that differ from the stored definition ends in an error: it
\* does not return the existing factor_id.
C10_DifferingParamsRaise ==
    [][\A i \in 1..Len(factor_definitions) :
          (/\ ReRegisters(i)
           /\ store_args'.op = "register_and_insert_factor"
           /\ store_args'.params_json # factor_definitions[i].params_json)
          => store_ret'.status # "ok"]_vars

\* the step is a call of register_and_insert_factor that returned
UpsertReturned ==
    /\ clock' = clock + 1
    /\ store_args'.op = "register_and_insert_factor"
    /\ store_ret'.status = "ok"
PassedColumn(r, col) ==
    IF col \in store_args'.df_factor.columns THEN r[col] ELSE NULL
PassedKey(r) == <<r.security_id, r.trade_date, store_ret'.factor_id>>

\* C11: after a call of register_and_insert_factor that returned,
\* factor_values holds exactly one row for the key (security_id, trade_date,
\* factor_id) of every row passed, and value, the four score columns,
\* calc_run_id and updated_at of that row are those of this call, whether
\* the key was absent or present before; rows of other keys are as before.
C11_UpsertLastWriterWins ==
    [][UpsertReturned =>
        /\ \A r \in Range(store_args'.df_factor.rows) :
              /\ Cardinality({v \in factor_values' : ValueKey(v) = PassedKey(r)}) = 1
              /\ \A v \in factor_values' :
                    ValueKey(v) = PassedKey(r) =>
                        /\ v.value = r.value
                        /\ v.zscore_cross = PassedColumn(r, "zscore_cross")
                        /\ v.rank_cross = PassedColumn(r, "rank_cross")
                        /\ v.zscore_cross_sector = PassedColumn(r, "zscore_cross_sector")
                        /\ v.rank_cross_sector = PassedColumn(r, "rank_cross_sector")
                        /\ v.calc_run_id = (IF store_args'.calc_run_id = <<>>
                                            THEN <<"run_", clock>>
                                            ELSE store_args'.calc_run_id)
                        /\ v.updated_at = clock
        /\ \A v \in factor_values :
              (\A r \in Range(store_args'.df_factor.rows) : ValueKey(v) # PassedKey(r))
                  => v \in factor_values']_vars

\* the key (1, 1, 1) was written together with (1, 2, 1) by an earlier call
\* and has now been overwritten by the fully scored frame
C11_Witness ==
    /\ store_args.op = "register_and_insert_factor"
    /\ store_ret = [status |-> "ok", factor_id |-> 1]
    /\ store_args.df_factor.columns = AllColumns
    /\ \E v \in factor_values :
          /\ ValueKey(v) = <<1, 2, 1>>
          /\ v.updated_at < clock - 1
          /\ \E w \in factor_values :
                /\ ValueKey(w) = <<1, 1, 1>>
                /\ w.updated_at = clock - 1
                /\ w.zscore_cross = Num(1)
                /\ w.calc_run_id # v.calc_run_id

\* a stored row without the columns that tell the runs apart
WithoutRunColumns(v) ==
    [security_id |-> v.security_id, trade_date |-> v.trade_date,
     factor_id |-> v.factor_id, value |-> v.value,
     zscore_cross |-> v.zscore_cross, rank_cross |-> v.rank_cross,
     zscore_cross_sector |-> v.zscore_cross_sector,
     rank_cross_sector |-> v.rank_cross_sector]

\* the step runs compute_momentum(save_to_db=True) again, right after a run
\* with the same parameters that succeeded
MomentumRerun ==
    /\ clock' = clock + 1
    /\ store_args.op = "compute_momentum"
    /\ store_ret.status = "ok"
    /\ store_args'.op = "compute_momentum"
    /\ store_args'.name = store_args.name

\* C12: running compute_momentum with save_to_db=True a second time on the
\* same prices with the same parameters succeeds and leaves factor_values
\* with the same keys and values (calc_run_id and updated_at aside).
C12_RerunIdempotent ==
    [][MomentumRerun =>
        /\ store_ret'.status = "ok"
        /\ {WithoutRunColumns(v) : v \in factor_values'}
              = {WithoutRunColumns(v) : v \in factor_values}]_vars

\* the step is a value-persisting call of either path that got as far as
\* its transaction
PersistingCall ==
    /\ clock' = clock + 1
    /\ store_args'.op \in {"register_and_insert_factor", "compute_momentum"}
    /\ store_ret'.factor_id # 0
    /\ {"security_id", "trade_date", "value"} \subseteq store_args'.df_factor.columns

\* C13: a value-persisting call either succeeds, and then every row of the
\* call is in factor_values under the call's factor_id with the call's
\* value and timestamp, or it ends in an error, and then factor_values is
\* exactly what it was before the call.
C13_WriteAtomic ==
    [][PersistingCall =>
        IF store_ret'.status = "ok"
        THEN \A r \in Range(store_args'.df_factor.rows) :
                \E v \in factor_values' :
                    /\ ValueKey(v) = PassedKey(r)
                    /\ v.value = r.value
                    /\ v.updated_at = clock
        ELSE /\ store_ret'.status \in {"RuntimeError", "ConstraintException"}
             /\ factor_values' = factor_values]_vars

\* compute_momentum failed on the key (1, 2) that an earlier call had stored
\* under the momentum name: its row for (1, 3), which no constraint rejects,
\* is not in factor_values, and the earlier rows are
C13_Witness ==
    /\ store_args.op = "compute_momentum"
    /\ store_ret.status = "ConstraintException"
    /\ \E r \in Range(store_args.df_factor.rows) : r.trade_date = 3
    /\ \E v \in factor_values : ValueKey(v) = <<1, 2, store_ret.factor_id>>
    /\ ~\E v \in factor_values : ValueKey(v) = <<1, 3, store_ret.factor_id>>

\* the step is a compute_momentum(save_to_db=True) call whose arguments
\* _validate_inputs rejects
InvalidMomentumCall ==
    /\ clock' = clock + 1
    /\ store_args'.op = "compute_momentum"
    /\ \/ mom_args'.lookback_months <= 0
       \/ mom_args'.skip_months < 0
       \/ mom_args'.tpm <= 0

\* C21: compute_momentum with a non-positive lookback, a negative skip or a
\* non-positive trading_days_per_month raises ValueError, computes no value
\* and leaves factor_definitions and factor_values as they were.
C21_InvalidArgumentsRejected ==
    [][InvalidMomentumCall =>
        /\ mom_ret'.status = "ValueError"
        /\ mom_ret'.rows = <<>>
        /\ mom_value' = NoValue
        /\ store_ret'.status = "ValueError"
        /\ factor_definitions' = factor_definitions
        /\ factor_values' = factor_values]_vars

\* each of the three parameters has been rejected by some call on a store
\* that already held definitions and values
C21_Witness ==
    /\ store_args.op = "compute_momentum"
    /\ store_ret.status = "ValueError"
    /\ mom_args.skip_months < 0
    /\ factor_definitions # <<>>
    /\ factor_values # {}

\* the step is a compute_momentum(save_to_db=True) call that yields no
\* defined value for any (security, date)
MomentumWithoutValues ==
    /\ clock' = clock + 1
    /\ store_args'.op = "compute_momentum"
    /\ \A s \in Sids : \A i \in DOMAIN mom_value'[s] : IsNa(mom_value'[s][i])

\* C23: a compute_momentum call whose input yields no defined value fails
\* with an error, registers no factor definition and writes no factor value.
C23_NoValuesFailsTheCall ==
    [][MomentumWithoutValues =>
        /\ mom_ret'.status # "ok"
        /\ factor_definitions' = factor_definitions
        /\ factor_values' = factor_values]_vars

\* the step is a register_and_insert_factor call that raised on df_factor
\* or in the MERGE, for a name that had no factor_definitions row
FailedCallOfNewName ==
    /\ clock' = clock + 1
    /\ store_args'.op = "register_and_insert_factor"
    /\ store_ret'.status \in {"ValueError", "RuntimeError"}
    /\ store_args'.name # <<>>
    /\ SelectFactorId(factor_definitions, store_args'.name) = 0

\* C27: when register_and_insert_factor raises after being called with a name
\* that is not registered, factor_definitions has no row for the name and
\* factor_values is unchanged.
C27_FailedCallLeavesNoDefinition ==
    [][FailedCallOfNewName =>
        /\ SelectFactorId(factor_definitions', store_args'.name) = 0
        /\ factor_definitions' = factor_definitions
        /\ factor_values' = factor_values]_vars

CallKeys == {PassedKey(r) : r \in Range(store_args'.df_factor.rows)}

\* C30: a successful register_and_insert_factor call leaves every
\* factor_values row whose key is not in the call exactly as it was, adds no
\* row under a key that is not in the call, and deletes no key.
C30_OnlyCallKeysChange ==
    [][UpsertReturned =>
        /\ {v \in factor_values' : ValueKey(v) \notin CallKeys}
              = {v \in factor_values : ValueKey(v) \notin CallKeys}
        /\ {ValueKey(v) : v \in factor_values}
              \subseteq {ValueKey(v) : v \in factor_values'}]_vars

\* a re-run of factor 1 with the single key (1, 1) after a run that had also
\* written (1, 2), with a row of factor 2 in between: both earlier rows are
\* in the store as they were written
C30_Witness ==
    /\ store_args.op = "register_and_insert_factor"
    /\ store_ret = [status |-> "ok", factor_id |-> 1]
    /\ Len(store_args.df_factor.rows) = 1
    /\ clock = 3
    /\ \E v \in factor_values : ValueKey(v) = <<1, 1, 1>> /\ v.updated_at = 2
    /\ \E v \in factor_values :
          ValueKey(v) = <<1, 2, 1>> /\ v.updated_at = 0 /\ v.value = Num(2)
    /\ \E v \in factor_values : ValueKey(v) = <<1, 1, 2>> /\ v.updated_at = 1

\* the keys both concurrent runs upsert
OverlappingKeys == KeysOf(tx[1].rows) \cap KeysOf(tx[2].rows)

\* the runs that committed a row under key k
CommittedWriters(k) ==
    {i \in 1..Len(commits) : k \in KeysOf(tx[commits[i]].rows)}

\* the run that committed key k last
LastCommitted(k) ==
    commits[CHOOSE i \in CommittedWriters(k) : \A j \in CommittedWriters(k) : j <= i]

\* the row run p upserts under key k
RowOfRun(p, k) == CHOOSE r \in tx[p].rows : ValueKey(r) = k

\* C24: when two persisting runs with different calc_run_ids upsert
\* overlapping keys under any interleaving of their steps, every overlapping
\* row in the store is, in value, all score columns, calc_run_id and
\* updated_at, the row of the run that committed it last, never a mixture of
\* columns of both runs.
C24_LastCommitWins ==
    \A v \in factor_values :
        (ValueKey(v) \in OverlappingKeys /\ CommittedWriters(ValueKey(v)) # {}) =>
            v = RowOfRun(LastCommitted(ValueKey(v)), ValueKey(v))

\* both runs committed an overlapping key, the second having begun before
\* the first committed, over a row an earlier run had written
C24_Witness ==
    /\ Len(commits) = 2
    /\ CommittedSince(commits[2], commits[1])
    /\ \E v \in factor_values :
          /\ ValueKey(v) \in OverlappingKeys
          /\ ValueKey(v) \in KeysOf(EarlierValues)
          /\ v.calc_run_id = tx[commits[2]].calc_run_id
          /\ v.updated_at = RowOfRun(commits[2], ValueKey(v)).updated_at

----------------------------------------------------------------------------
(* Claims on the weight construction *)

DefinedAssets(d) == {a \in Assets : ~IsNa(bt_scores[d][a])}
LongSide(d) == {a \in Assets : bt_long[d][a]}
ShortSide(d) == {a \in Assets : bt_short[d][a]}

TopNRun ==
    /\ bt_ret = "ok"
    /\ bt_args.op = "run_top_n_strategy"

RawTopNRun == TopNRun /\ ~bt_args.input_is_rank

LongShortRun ==
    /\ bt_ret = "ok"
    /\ bt_args.op = "run_long_short_strategy"

ThresholdRun ==
    /\ bt_ret = "ok"
    /\ bt_args.op = "run_threshold_strategy"

\* C14: in the daily signal of the top-N equal-weight strategy on raw scores
\* the weights of a date sum to 1 when some security has a defined score on
\* that date, tied scores included, and to 0 otherwise.
C14_EqualWeightsSumToOne ==
    (RawTopNRun /\ bt_args.weighting = "equal") =>
        \A d \in BtDates :
            RowSum(bt_signal[d]) = IF DefinedAssets(d) # {} THEN Num(1) ELSE Num(0)

\* C15: the top-N selection on raw scores picks exactly min(N, number of
\* defined scores) securities on every date, and no unselected security has a
\* higher score than a selected one.
C15_SelectsExactlyMinOfNAndCount ==
    RawTopNRun =>
        \A d \in BtDates :
            /\ Cardinality(LongSide(d)) =
                  IF bt_args.top_n < Cardinality(DefinedAssets(d))
                  THEN bt_args.top_n ELSE Cardinality(DefinedAssets(d))
            /\ \A a \in LongSide(d), b \in DefinedAssets(d) \ LongSide(d) :
                  ~FLess(bt_scores[d][a], bt_scores[d][b])

PositiveSum(row) ==
    RowSum([a \in Assets |->
               IF ~IsNa(row[a]) /\ FLess(Num(0), row[a]) THEN row[a] ELSE Num(0)])

NegativeSum(row) ==
    RowSum([a \in Assets |->
               IF ~IsNa(row[a]) /\ FLess(row[a], Num(0)) THEN row[a] ELSE Num(0)])

\* C16: in the daily signal of the long-short strategy the positive weights of
\* a date sum to +0.5 when the long side has members and the negative weights
\* to -0.5 when the short side has members.
C16_SidesSumToHalf ==
    (LongShortRun /\ bt_args.weighting = "equal") =>
        \A d \in BtDates :
            /\ LongSide(d) # {} => PositiveSum(bt_signal[d]) = Rat(1, 2)
            /\ ShortSide(d) # {} => NegativeSum(bt_signal[d]) = Rat(-1, 2)

\* C17: in the long-short strategy no security is on the long side and on the
\* short side of the same date.
C17_LongAndShortDisjoint ==
    LongShortRun => \A d \in BtDates : LongSide(d) \cap ShortSide(d) = {}

AboveUpper(d) == {a \in Assets : Greater(bt_scores[d][a], bt_args.upper_threshold)}
BelowLower(d) == {a \in Assets : Greater(bt_args.lower_threshold, bt_scores[d][a])}

LastRebalanceDate(d) ==
    LET freq == IF bt_args.rebalance_freq = "M" THEN "ME" ELSE bt_args.rebalance_freq
        before == {r \in RebalanceDates(freq) : r <= d}
    IN  IF before = {} THEN 0 ELSE CHOOSE r \in before : \A q \in before : q <= r

\* C19: with a rebalance frequency, the row of every date in the matrix
\* handed to the simulator is the daily signal of the most recent rebalance
\* date at or before that date.
C19_WeightsCarriedForward ==
    (bt_ret = "ok" /\ bt_args.rebalance_freq # "") =>
        \A d \in BtDates :
            LastRebalanceDate(d) # 0 => bt_weights[d] = bt_signal[LastRebalanceDate(d)]

SelectedAbs(d) ==
    [a \in Assets |-> IF a \in LongSide(d) THEN AbsF(bt_scores[d][a]) ELSE Num(0)]

\* C20: with weighting 'factor' every selected security gets |score| divided
\* by the sum of |score| over the selected securities of the date, the
\* weights of the date sum to 1 and unselected securities get 0; when that
\* sum is zero every weight of the date is 0, and no weight is NaN.
C20_FactorWeights ==
    (TopNRun /\ bt_args.weighting = "factor") =>
        \A d \in BtDates :
            IF RowSum(SelectedAbs(d)) = Num(0)
            THEN \A a \in Assets : bt_signal[d][a] = Num(0)
            ELSE /\ \A a \in Assets :
                       bt_signal[d][a] =
                          IF a \in LongSide(d)
                          THEN FDiv(AbsF(bt_scores[d][a]), RowSum(SelectedAbs(d)))
                          ELSE Num(0)
                 /\ RowSum(bt_signal[d]) = Num(1)

C20_Witness ==
    /\ TopNRun
    /\ bt_args.weighting = "factor"
    /\ LongSide(1) # {}
    /\ RowSum(SelectedAbs(1)) = Num(0)
    /\ \E d \in BtDates :
          /\ Cardinality(LongSide(d)) = 2
          /\ \E a \in LongSide(d) : bt_signal[d][a] = Rat(3, 4)

====
